---- MODULE Spec2Model ----
(***************************************************************************)
(* A model of the thin_trait_object attribute macro: the macro expansion   *)
(* (attribute_main and its generators, as operators over a description of  *)
(* the annotated trait) and the behaviour of the code it emits (the        *)
(* vtable, the representation struct and the boxed handle), interpreted    *)
(* over a word-addressed heap.                                             *)
(***************************************************************************)
EXTENDS Integers, Sequences, FiniteSets, TLC

VARIABLES crate, heap, handles, raws, obs, ub

vars == <<crate, heap, handles, raws, obs, ub>>

(* ------------------------------ bounds --------------------------------- *)

\* Number of allocations (calls of new) a behaviour may make.
MaxAllocs == 1

\* Number of handle values a behaviour may create (new, from_raw).
MaxHandles == 2

\* Largest argument value passed to an interface method.
MaxArgVal == 2

(* ------------------------- syntax of the input ------------------------- *)

\* Option::None of an identifier.
NoName == ""

\* syn::Receiver `&self`, as a VtableFnArg.
Receiver == [kind |-> "Receiver", name |-> "self", ty |-> "&self"]

\* A typed parameter; name = NoName when its pattern is not an identifier.
Normal(name, ty) == [kind |-> "Normal", name |-> name, ty |-> ty]

\* syn::Receiver as a syn::FnArg: `self`, `&self`, `&mut self`.
FnArgReceiver(reference, mutability) ==
    [kind |-> "Receiver", reference |-> reference, mutability |-> mutability]

\* syn::FnArg::Typed, `pat: ty`; pat is the identifier of a Pat::Ident and
\* NoName for any other pattern.  syn 1 parses `self: Box<Self>` as Typed.
Typed(pat, ty) == [kind |-> "Typed", pat |-> pat, ty |-> ty]

\* syn::GenericParam: a lifetime, type or const parameter.
GenericParam(kind, name) == [kind |-> kind, name |-> name]

\* syn::Generics: the parameters and whether a where clause follows.
Generics(params, where_clause) == [params |-> params, where_clause |-> where_clause]

NoGenerics == Generics(<<>>, FALSE)

\* syn::TraitItem::Method with its syn::Signature: a safe method of the
\* Rust ABI (abi = NoName) that is not variadic and returns () (output =
\* NoName), unless changed.
Method(ident, asyncness, generics, inputs) ==
    [kind |-> "Method",
     sig |-> [ident |-> ident, asyncness |-> asyncness, unsafety |-> FALSE,
              abi |-> NoName, generics |-> generics, inputs |-> inputs,
              variadic |-> FALSE, output |-> NoName]]

\* Any other syn::TraitItem: "Const", "Type", "Macro", or "Verbatim" for a
\* kind syn does not name.
OtherItem(kind) == [kind |-> kind]

\* `fn baring(&self, extra: i32);`
baring ==
    Method("baring", FALSE, NoGenerics, <<FnArgReceiver(TRUE, FALSE), Typed("extra", "i32")>>)

\* `fn fooify(&self, extra_data: &str);`
fooify ==
    Method("fooify", FALSE, NoGenerics,
           <<FnArgReceiver(TRUE, FALSE), Typed("extra_data", "&str")>>)

\* `fn poke(&self, _: u8);` (a parameter without a name).
poke ==
    Method("poke", FALSE, NoGenerics, <<FnArgReceiver(TRUE, FALSE), Typed(NoName, "u8")>>)

\* A method with two typed parameters, `fn pair(&self, a: i32, b: i32);`
pair ==
    Method("pair", FALSE, NoGenerics,
           <<FnArgReceiver(TRUE, FALSE), Typed("a", "i32"), Typed("b", "i32")>>)

\* `unsafe extern "C" fn read_raw<'a>(&'a mut self, data: &'a u8) -> i32;`
read_raw ==
    [Method("read_raw", FALSE, Generics(<<GenericParam("Lifetime", "a")>>, FALSE),
            <<FnArgReceiver(TRUE, TRUE), Typed("data", "&'a u8")>>)
        EXCEPT !.sig.unsafety = TRUE, !.sig.abi = "C", !.sig.output = "i32"]

\* `extern "C" fn log(&self, level: u8, ...);`
log ==
    [Method("log", FALSE, NoGenerics, <<FnArgReceiver(TRUE, FALSE), Typed("level", "u8")>>)
        EXCEPT !.sig.abi = "C", !.sig.variadic = TRUE]

\* `fn blend(&self, a: i32, _: u8);`: an unnamed parameter after a named one.
blend ==
    Method("blend", FALSE, NoGenerics,
           <<FnArgReceiver(TRUE, FALSE), Typed("a", "i32"), Typed(NoName, "u8")>>)

(* ------------------------------ vtable.rs ------------------------------ *)

\* Ok(val) and Err(err) of a Result<_, syn::Error>.
Ok(val) == [ok |-> TRUE, err |-> NoName, val |-> val]

Err(err) == [ok |-> FALSE, err |-> err, val |-> <<>>]

\* A collect that goes on after an error and reports the last one.
collect_last_error(results) ==
    IF \E i \in DOMAIN results : ~results[i].ok
    THEN results[CHOOSE i \in DOMAIN results :
                    ~results[i].ok /\ \A j \in DOMAIN results : j > i => results[j].ok]
    ELSE [ok |-> TRUE, err |-> NoName, val |-> [i \in DOMAIN results |-> results[i].val]]

\* .collect::<Result<Vec<_>, _>>() over results in order: the first Err met,
\* or the values.
collect(results) ==
    IF \E i \in DOMAIN results : ~results[i].ok
    THEN results[CHOOSE i \in DOMAIN results :
                    ~results[i].ok /\ \A j \in 1..(i - 1) : results[j].ok]
    ELSE Ok([i \in DOMAIN results |-> results[i].val])

\* syn 1's Signature::receiver, as a test: the first input is a Receiver or
\* a typed parameter whose pattern is the identifier `self`.
signature_has_receiver(signature) ==
    /\ signature.inputs # <<>>
    /\ \/ signature.inputs[1].kind = "Receiver"
       \/ signature.inputs[1].kind = "Typed" /\ signature.inputs[1].pat = "self"

\* TryFrom<FnArg> for VtableFnArg
VtableFnArg_try_from(value) ==
    IF value.kind = "Typed" THEN Ok(Normal(value.pat, value.ty))
    ELSE IF ~value.reference
    THEN Err("thin_trait_object does not support pass-by-value just yet")
    ELSE Ok([kind |-> "Receiver", name |-> "self",
             ty |-> IF value.mutability THEN "&mut self" ELSE "&self"])

\* generics_to_lifetimes
generics_to_lifetimes(generics) ==
    IF generics.where_clause
    THEN Err("trait methods with where clauses are not object-safe")
    ELSE collect([i \in DOMAIN generics.params |->
            CASE generics.params[i].kind = "Lifetime" -> Ok(generics.params[i].name)
              [] generics.params[i].kind = "Type" ->
                    Err("generic type parameters are not object-safe")
              [] generics.params[i].kind = "Const" ->
                    Err("generic constant parameters are not object-safe")])

\* TryFrom<TraitItemMethod> for VtableItem
VtableItem_try_from_method(method) ==
    LET signature == method.sig
        lifetimes == generics_to_lifetimes(signature.generics)
        inputs == collect([i \in DOMAIN signature.inputs |->
                            VtableFnArg_try_from(signature.inputs[i])])
    IN IF ~signature_has_receiver(signature)
       THEN Err("traits with associated functions cannot be made into trait objects")
       ELSE IF signature.asyncness
       THEN Err("traits with async methods cannot be made into trait objects")
       ELSE IF ~lifetimes.ok THEN lifetimes
       ELSE IF ~inputs.ok THEN inputs
       ELSE Ok([name |-> signature.ident, unsafety |-> signature.unsafety,
                abi |-> signature.abi,
                lifetimes |-> lifetimes.val, inputs |-> inputs.val,
                variadic |-> signature.variadic, output |-> signature.output])

\* TryFrom<TraitItem> for VtableItem
VtableItem_try_from(item) ==
    CASE item.kind = "Method" -> VtableItem_try_from_method(item)
      [] item.kind = "Const" ->
            Err("traits with associated constants cannot be made into trait objects")
      [] item.kind = "Type" ->
            Err("traits with associated types cannot be made into trait objects")
      [] item.kind = "Macro" ->
            Err("thin_trait_object cannot expand macros")
      [] OTHER ->
            Err("traits with this kind of item cannot be made into trait objects")

\* A make_unsafe that leaves the item as it is.
make_unsafe_never(item) == item

make_unsafe(item) == [item EXCEPT !.unsafety = TRUE]

into_bare_arg_with_ptr_receiver(arg) ==
    IF arg.kind = "Receiver"
    THEN [kind |-> "Normal", name |-> NoName, ty |-> "*mut c_void"]
    ELSE arg

\* make_raw: the item with every receiver erased ...
make_raw(item) ==
    [item EXCEPT !.inputs =
        [i \in DOMAIN item.inputs |-> into_bare_arg_with_ptr_receiver(item.inputs[i])]]

\* ... and make_raw's return value: whether a receiver was replaced.
make_raw_replaced(item) ==
    \E i \in DOMAIN item.inputs : item.inputs[i].kind = "Receiver"

\* The value of into_signature's counter current_arg when input i is reached:
\* the number of earlier typed inputs that needed a default name.
current_arg(inputs, i) ==
    Cardinality({j \in 1..(i - 1) : inputs[j].kind = "Normal" /\ inputs[j].name = NoName})

\* into_signature; default_argname(n) is the identifier prefix followed by n.
\* The result keeps the parameter names: "self" for a receiver.
into_signature(item, prefix) ==
    [ident |-> item.name,
     unsafety |-> item.unsafety,
     inputs |-> [i \in DOMAIN item.inputs |->
        IF item.inputs[i].kind = "Receiver" THEN "self"
        ELSE IF item.inputs[i].name # NoName THEN item.inputs[i].name
        ELSE prefix \o ToString(current_arg(item.inputs, i))]]

\* to_function_pointer: `#lifetimes #unsafety #abi fn ( #(#inputs,)*
\* #variadic ) #output`
to_function_pointer(item) ==
    [lifetimes |-> item.lifetimes, unsafety |-> item.unsafety, abi |-> item.abi,
     inputs |-> item.inputs, variadic |-> item.variadic, output |-> item.output]

\* The type of a field that is no function pointer.
NoPtr ==
    [lifetimes |-> <<>>, unsafety |-> FALSE, abi |-> NoName, inputs |-> <<>>,
     variadic |-> FALSE, output |-> NoName]

\* VtableItemToFnPtr: the field `#name : #ty` of a method, ty the function
\* pointer of the item made unsafe and raw.
VtableItemToFnPtr(item) ==
    [name |-> item.name, kind |-> "fn", ty |-> "fn",
     ptr |-> to_function_pointer(make_raw(make_unsafe(item)))]

\* `unsafe #drop_abi fn(*mut ::core::ffi::c_void)`
drop_func_type(drop_abi) ==
    [lifetimes |-> <<>>, unsafety |-> TRUE, abi |-> drop_abi,
     inputs |-> <<[kind |-> "Normal", name |-> NoName, ty |-> "*mut c_void"]>>,
     variadic |-> FALSE, output |-> NoName]

\* A derivation of the table name that puts the trait's name last.
super_vtable_type_prefixed(super_trait) == "Vtable" \o super_trait

\* format_ident!("{}Vtable", ..) of super_vtable_type.
super_vtable_type(super_trait) == super_trait \o "Vtable"

\* A table generator that declares the layout fields after the function
\* pointers instead of before them.
generate_vtable_layout_last(stash, drop_abi, store_layout) ==
    [name |-> stash.vtable_name,
     fields |->
        (IF stash.super_trait # NoName
         THEN <<[name |-> "super_trait_vtable", kind |-> "table",
                 ty |-> super_vtable_type(stash.super_trait), ptr |-> NoPtr]>>
         ELSE <<>>)
        \o [i \in DOMAIN stash.vtable_items |-> VtableItemToFnPtr(stash.vtable_items[i])]
        \o (IF store_layout
            THEN <<[name |-> "size", kind |-> "usize", ty |-> "usize", ptr |-> NoPtr],
                   [name |-> "align", kind |-> "usize", ty |-> "usize", ptr |-> NoPtr]>>
            ELSE <<>>)
        \o (IF stash.super_trait = NoName
            THEN <<[name |-> "drop", kind |-> "dropfn", ty |-> "fn",
                    ptr |-> drop_func_type(drop_abi)]>>
            ELSE <<>>),
     drop_impl |-> IF stash.super_trait # NoName THEN "super_trait_vtable.invoke_drop"
                   ELSE "drop"]

\* generate_vtable: the declared fields of the table struct and the body of
\* invoke_drop.
generate_vtable(stash, drop_abi, store_layout) ==
    LET super_trait_decl ==
            IF stash.super_trait # NoName
            THEN <<[name |-> "super_trait_vtable", kind |-> "table",
                    ty |-> super_vtable_type(stash.super_trait), ptr |-> NoPtr]>>
            ELSE <<>>
        size_and_align ==
            IF store_layout
            THEN <<[name |-> "size", kind |-> "usize", ty |-> "usize", ptr |-> NoPtr],
                   [name |-> "align", kind |-> "usize", ty |-> "usize", ptr |-> NoPtr]>>
            ELSE <<>>
        vtable_entries ==
            [i \in DOMAIN stash.vtable_items |-> VtableItemToFnPtr(stash.vtable_items[i])]
        drop_func ==
            IF stash.super_trait = NoName
            THEN <<[name |-> "drop", kind |-> "dropfn", ty |-> "fn",
                    ptr |-> drop_func_type(drop_abi)]>>
            ELSE <<>>
        drop_impl ==
            IF stash.super_trait # NoName THEN "super_trait_vtable.invoke_drop"
            ELSE "drop"
    IN [name |-> stash.vtable_name,
        fields |-> super_trait_decl \o size_and_align \o vtable_entries \o drop_func,
        drop_impl |-> drop_impl]

(* ------------------------------- repr.rs ------------------------------- *)

nth_arg(n) == "__thintraitobjectmacro_arg" \o ToString(n)

to_nth_thunk_arg(arg, n) ==
    LET a == into_bare_arg_with_ptr_receiver(arg)
    IN IF a.name = NoName THEN [a EXCEPT !.name = nth_arg(n)] ELSE a

repr_name_from_trait_name(trait_name) == "__ThinTraitObjectMacro_ReprFor" \o trait_name

\* An initialiser written under the name of the thunk instead of the field.
write_vtable_thunk_entry_misnamed(name, val) ==
    [name |-> val, kind |-> "thunk", val |-> val]

\* `#name: Self :: #val,`
write_vtable_thunk_entry(name, val) ==
    [name |-> name, kind |-> "thunk", val |-> val]

\* `#name: <__ThinTraitObjectMacro_ReprGeneric0 as #trait_name> :: #name,`
write_vtable_single_hop_entry(name, trait_name) ==
    [name |-> name, kind |-> "single_hop", val |-> name]

\* write_thunk: the thunk's signature and the tokens of its call
\* `(*(arg0 as *mut Repr<T>)).value.#name(#(#args)*)`: the argument
\* identifiers one after the other, with no separator between them.
write_thunk(name, repr_name, signature, args) ==
    [signature |-> signature,
     repr |-> repr_name,
     method |-> name,
     call_tokens |-> [i \in DOMAIN args |-> args[i].name]]

\* The predicate of a generator that thunks no method.
double_hop_never(entry) == FALSE

\* The closure `|_| true` handed to generate_vtable_and_thunks.
double_hop_predicate(entry) == TRUE

\* One iteration of the loop of generate_vtable_and_thunks.
vtable_and_thunk_of(trait_name, repr_name, entry0) ==
    LET double_hop == double_hop_predicate(entry0)
        has_receiver == make_raw_replaced(entry0)
        raw == make_raw(entry0)
        entry == IF has_receiver THEN make_unsafe(raw) ELSE raw
        \* skip(1), argument_counter starting at 1 and counting every argument
        thunk_call_args ==
            [i \in 1..(Len(entry.inputs) - 1) |-> to_nth_thunk_arg(entry.inputs[i + 1], i)]
        thunk_name == "__thintraitobjectmacro_thunk_" \o entry.name
        thunk_signature ==
            [into_signature(entry, "__thintraitobjectmacro_arg") EXCEPT !.ident = thunk_name]
    IN IF double_hop
       THEN [content |-> write_vtable_thunk_entry(entry.name, thunk_name),
             thunks |-> <<write_thunk(entry.name, repr_name, thunk_signature, thunk_call_args)>>]
       ELSE [content |-> write_vtable_single_hop_entry(entry.name, trait_name),
             thunks |-> <<>>]

RECURSIVE Concat(_)
\* The concatenation of a sequence of sequences (a TokenStream being extended).
Concat(ss) == IF ss = <<>> THEN <<>> ELSE Head(ss) \o Concat(Tail(ss))

generate_vtable_and_thunks(trait_name, repr_name, vtable_entries) ==
    LET per == [i \in DOMAIN vtable_entries |->
                    vtable_and_thunk_of(trait_name, repr_name, vtable_entries[i])]
    IN [vtable_contents |-> [i \in DOMAIN per |-> per[i].content],
        thunk_methods |-> Concat([i \in DOMAIN per |-> per[i].thunks])]

\* Initialisers that give size the alignment and align the size.
size_and_align_swapped(store_layout) ==
    IF store_layout
    THEN <<[name |-> "size", kind |-> "align_of", val |-> "T"],
           [name |-> "align", kind |-> "size_of", val |-> "T"]>>
    ELSE <<>>

\* size_and_align of generate_repr: the initialisers of the layout fields,
\* size: size_of::<T>(), align: align_of::<T>(), T the wrapped type.
size_and_align_init(store_layout) ==
    IF store_layout
    THEN <<[name |-> "size", kind |-> "size_of", val |-> "T"],
           [name |-> "align", kind |-> "align_of", val |-> "T"]>>
    ELSE <<>>

\* generate_repr: the representation struct, its table constant and its
\* functions.
generate_repr(stash, inline_vtable, store_layout) ==
    LET vt == generate_vtable_and_thunks(stash.trait_name, stash.repr_name, stash.vtable_items)
        vtable_field_type == IF inline_vtable THEN "value" ELSE "static_ref"
        ctor_val == IF inline_vtable THEN "copy" ELSE "borrow"
        size_and_align == size_and_align_init(store_layout)
        init_super_type ==
            IF stash.super_trait # NoName
            THEN <<[name |-> "super_trait_vtable", kind |-> "super_const",
                    val |-> repr_name_from_trait_name(stash.super_trait)]>>
            ELSE <<>>
        init_drop ==
            IF stash.super_trait = NoName
            THEN <<[name |-> "drop", kind |-> "repr_drop", val |-> stash.repr_name]>>
            ELSE <<>>
    IN [name |-> stash.repr_name,
        trait_name |-> stash.trait_name,
        vtable_name |-> stash.vtable_name,
        \* fields of the #[repr(C)] struct, in declaration order
        fields |-> <<[name |-> "__thintraitobjectmacro_repr_vtable", ty |-> vtable_field_type],
                     [name |-> "__thintraitobjectmacro_repr_value", ty |-> "T"]>>,
        ctor_val |-> ctor_val,
        vtable_init |-> init_super_type \o size_and_align \o vt.vtable_contents \o init_drop,
        thunk_methods |-> vt.thunk_methods]

(* --------------------------- inheritance.rs ---------------------------- *)

\* format_ident!("ThinTraitObject_Implements_{}", ..)
blanket_trait_name(target_trait) == "ThinTraitObject_Implements_" \o target_trait

\* format_ident!("vtable_{}", ..)
vtable_method_name_of(target_trait) == "vtable_" \o target_trait

\* TargetImpl::SpecificTraitObject { trait_object_name }
SpecificTraitObject(trait_object_name) ==
    [kind |-> "SpecificTraitObject", trait_name |-> NoName, vtable_method |-> NoName,
     trait_object_name |-> trait_object_name]

\* TargetImpl::BlanketTrait { trait_name, vtable_method }
BlanketTrait(trait_name, vtable_method) ==
    [kind |-> "BlanketTrait", trait_name |-> trait_name, vtable_method |-> vtable_method,
     trait_object_name |-> NoName]

\* TargetImpl::data_ptr_method_name
data_ptr_method_name(target_impl) ==
    IF target_impl.kind = "SpecificTraitObject" THEN "as_raw" ELSE "data_ptr"

\* TargetImpl::vtable_method_name
vtable_method_name(target_impl) ==
    IF target_impl.kind = "SpecificTraitObject" THEN "vtable" ELSE target_impl.vtable_method

\* Option::None of the generated inheritance glue.
NoGlue == [present |-> FALSE]

\* InheritanceConfig::default()
DefaultInheritanceConfig == [extends |-> NoName, possible_super_trait |-> FALSE]

\* handle_possible_super_trait: [ok, err, stash, res]
handle_possible_super_trait(stash, config) ==
    IF config.possible_super_trait
    THEN IF stash.vtable_name # super_vtable_type(stash.trait_name)
         THEN [ok |-> FALSE, err |-> "CustomVtableNameUnsupported", stash |-> stash,
               res |-> NoGlue]
         ELSE [ok |-> TRUE, err |-> NoName,
               stash |-> [stash EXCEPT !.target_impl =
                            BlanketTrait(blanket_trait_name(stash.trait_name),
                                         vtable_method_name_of(stash.trait_name))],
               res |-> [present |-> TRUE,
                        \* generate_trait_decl
                        trait_decl |-> [name |-> blanket_trait_name(stash.trait_name),
                                        methods |-> <<"data_ptr",
                                                      vtable_method_name_of(stash.trait_name)>>,
                                        vtable_type |-> stash.vtable_name],
                        \* unsafe impl #blanket_trait_name for #trait_object_name
                        blanket_impl |-> [trait |-> blanket_trait_name(stash.trait_name),
                                          for |-> stash.trait_object_name,
                                          data_ptr |-> "as_raw",
                                          vtable_method |-> vtable_method_name_of(stash.trait_name),
                                          vtable_body |-> "vtable"]]]
    ELSE [ok |-> TRUE, err |-> NoName, stash |-> stash, res |-> NoGlue]

\* A handle_extends that always implements the super capability trait for
\* the handle type.
handle_extends_for_handle(stash, config) ==
    IF config.extends # NoName
    THEN [ok |-> TRUE, err |-> NoName,
          res |-> [present |-> TRUE,
                   trait |-> blanket_trait_name(config.extends),
                   target |-> SpecificTraitObject(stash.trait_object_name),
                   data_ptr |-> "as_raw",
                   vtable_method |-> vtable_method_name_of(config.extends),
                   vtable_body |-> <<"vtable", "super_trait_vtable">>,
                   super_vtable_type |-> super_vtable_type(config.extends)]]
    ELSE [ok |-> TRUE, err |-> NoName, res |-> NoGlue]

\* handle_extends and ExtendsSuperTrait::generate_blanket_impl: [ok, err, res]
handle_extends(stash, config) ==
    IF config.extends # NoName
    THEN [ok |-> TRUE, err |-> NoName,
          res |-> [present |-> TRUE,
                   trait |-> blanket_trait_name(config.extends),
                   \* the implementor: one handle type, or every Target: #trait_name
                   target |-> stash.target_impl,
                   data_ptr |-> data_ptr_method_name(stash.target_impl),
                   vtable_method |-> vtable_method_name_of(config.extends),
                   \* &self.#our_vtable_method().super_trait_vtable
                   vtable_body |-> <<vtable_method_name(stash.target_impl), "super_trait_vtable">>,
                   super_vtable_type |-> super_vtable_type(config.extends)]]
    ELSE [ok |-> TRUE, err |-> NoName, res |-> NoGlue]

(* --------------------------- marker_traits.rs -------------------------- *)

\* syn::Path: an optional leading `::` and the segment identifiers.
Path(leading_colon, segments) == [leading_colon |-> leading_colon, segments |-> segments]

\* make_path!: one segment gives a path without a leading colon, several
\* give one with it.
make_path(segments) == Path(Len(segments) > 1, segments)

\* TypeParamBound::Trait with the path of the bound.
TraitBound(path) == [kind |-> "Trait", path |-> path]

\* TypeParamBound::Lifetime, ident without the quote.
LifetimeBound(ident) == [kind |-> "Lifetime", ident |-> ident]

\* MarkerTrait { unsafety, path }
MarkerTrait(unsafety, path) == [unsafety |-> unsafety, path |-> path]

\* Option<(TraitBound, bool)> of a marker filter.
NoMarker == [some |-> FALSE, is_unsafe |-> FALSE]

SomeMarker(is_unsafe) == [some |-> TRUE, is_unsafe |-> is_unsafe]

\* The table of the crate documentation's default list: without Unpin.
LOOKUP_TABLE_documented ==
    <<[short_name |-> "Send", full_path |-> make_path(<<"core", "marker", "Send">>),
       is_unsafe |-> TRUE],
      [short_name |-> "Sync", full_path |-> make_path(<<"core", "marker", "Sync">>),
       is_unsafe |-> TRUE],
      [short_name |-> "UnwindSafe", full_path |-> make_path(<<"std", "panic", "UnwindSafe">>),
       is_unsafe |-> FALSE],
      [short_name |-> "RefUnwindSafe",
       full_path |-> make_path(<<"std", "panic", "RefUnwindSafe">>),
       is_unsafe |-> FALSE]>>

\* LOOKUP_TABLE: (short_name, full_path, is_unsafe)
LOOKUP_TABLE ==
    <<[short_name |-> "Send", full_path |-> make_path(<<"core", "marker", "Send">>),
       is_unsafe |-> TRUE],
      [short_name |-> "Sync", full_path |-> make_path(<<"core", "marker", "Sync">>),
       is_unsafe |-> TRUE],
      [short_name |-> "Unpin", full_path |-> make_path(<<"core", "marker", "Unpin">>),
       is_unsafe |-> FALSE],
      [short_name |-> "UnwindSafe", full_path |-> make_path(<<"std", "panic", "UnwindSafe">>),
       is_unsafe |-> FALSE],
      [short_name |-> "RefUnwindSafe",
       full_path |-> make_path(<<"std", "panic", "RefUnwindSafe">>),
       is_unsafe |-> FALSE]>>

\* A default filter that knows the short names only.
default_marker_filter_short_names(bound) ==
    LET hits == {i \in DOMAIN LOOKUP_TABLE :
                    bound.path = make_path(<<LOOKUP_TABLE[i].short_name>>)}
    IN IF hits = {} THEN NoMarker
       ELSE SomeMarker(LOOKUP_TABLE[CHOOSE i \in hits : \A j \in hits : i <= j].is_unsafe)

\* default_marker_filter: the first entry of the table whose short name or
\* full path is the path of the bound.
default_marker_filter(bound) ==
    LET hits == {i \in DOMAIN LOOKUP_TABLE :
                    \/ bound.path = make_path(<<LOOKUP_TABLE[i].short_name>>)
                    \/ bound.path = LOOKUP_TABLE[i].full_path}
    IN IF hits = {} THEN NoMarker
       ELSE SomeMarker(LOOKUP_TABLE[CHOOSE i \in hits : \A j \in hits : i <= j].is_unsafe)

\* MarkerTrait::as_impl_for: `#marker_unsafety impl #marker_path for #implementor {}`
as_impl_for(marker, implementor) ==
    [unsafety |-> marker.unsafety, trait |-> marker.path, for |-> implementor,
     body |-> <<>>]

\* The indices of the elements of a sequence that satisfy a test, in order.
Positions(flags) ==
    LET idx == {i \in DOMAIN flags : flags[i]}
        nth[k \in 0..Cardinality(idx)] ==
            IF k = 0 THEN 0
            ELSE CHOOSE i \in idx : i > nth[k - 1] /\ \A j \in idx : j > nth[k - 1] => i <= j
    IN [k \in 1..Cardinality(idx) |-> nth[k]]

\* supertraits_to_markers_and_lifetimes; verdicts[i] is marker_filter applied
\* to supertrait i when that is a trait bound.
supertraits_to_markers_and_lifetimes(supertraits, verdicts) ==
    LET marked == Positions([i \in DOMAIN supertraits |->
                        supertraits[i].kind = "Trait" /\ verdicts[i].some])
        lived == Positions([i \in DOMAIN supertraits |-> supertraits[i].kind = "Lifetime"])
    IN [markers |-> [k \in DOMAIN marked |->
                        MarkerTrait(verdicts[marked[k]].is_unsafe, supertraits[marked[k]].path)],
        lifetimes |-> [k \in DOMAIN lived |-> supertraits[lived[k]].ident]]

(* --------------------------- trait_object.rs --------------------------- *)

\* syn::Attribute: its path and the tokens after it.
Attribute(path, tokens) == [path |-> path, tokens |-> tokens]

\* check_attribute: the first segment of the path decides.
check_attribute(attribute) ==
    CASE attribute.path[1] = "derive" ->
            Err("cannot use derive macros on the thin trait object structure")
      [] attribute.path[1] = "repr" ->
            Err("the trait object structure already has a repr(transparent) annotation")
      [] OTHER -> Ok(attribute)


\* heck's to_snake_case on the trait names of the model.
to_snake_case(name) ==
    CASE name = "Bar" -> "bar"
      [] name = "Foo" -> "foo"
      [] OTHER -> name

\* A Punctuated<_, Token![,]> written out: the elements with commas between.
Punctuated(elems) ==
    [i \in 1..(IF elems = <<>> THEN 0 ELSE 2 * Len(elems) - 1) |->
        IF i % 2 = 1 THEN elems[(i + 1) \div 2] ELSE ","]

\* A forwarding method that passes the data pointer for every parameter.
VtableItemToImplThunk_pointer_only(item, vtable_method, data_ptr_method) ==
    LET signature == into_signature(item, "__arg")
    IN [signature |-> signature,
        vtable_method |-> vtable_method,
        call_name |-> signature.ident,
        call_tokens |-> Punctuated([i \in DOMAIN signature.inputs |->
                                        "self." \o data_ptr_method \o "()"])]

\* VtableItemToImplThunk::to_tokens: one forwarding method of the handle,
\* `#signature { ((self.#vtable_method_name()).#call_name)(#call_args) }`
VtableItemToImplThunk(item, vtable_method, data_ptr_method) ==
    LET signature == into_signature(item, "__arg")
        call_args ==
            [i \in DOMAIN signature.inputs |->
                IF signature.inputs[i] = "self" THEN "self." \o data_ptr_method \o "()"
                ELSE signature.inputs[i]]
    IN [signature |-> signature,
        vtable_method |-> vtable_method,
        call_name |-> signature.ident,
        call_tokens |-> Punctuated(call_args)]

\* An inherent impl of the handle that has the vtable() accessor only while
\* the target is the handle itself.
inherent_impl_specific_only(stash) ==
    (IF stash.super_trait # NoName
     THEN <<"as_" \o to_snake_case(stash.super_trait),
            "into_" \o to_snake_case(stash.super_trait)>>
     ELSE <<>>)
    \o <<"new", "from_raw", "as_raw", "into_raw">>
    \o (IF stash.target_impl.kind = "SpecificTraitObject" THEN <<"vtable">> ELSE <<>>)

\* `impl #generics #trait_object_name #generics { ... }` of the emitted
\* handle: the names of its methods in order, #cast_funcs first. Nothing in
\* it depends on the target of the trait implementation.
inherent_impl(stash) ==
    (IF stash.super_trait # NoName
     THEN <<"as_" \o to_snake_case(stash.super_trait),
            "into_" \o to_snake_case(stash.super_trait)>>
     ELSE <<>>)
    \o <<"new", "from_raw", "as_raw", "into_raw", "vtable">>

\* generate_trait_object: Err of the first attribute check_attribute
\* refuses, or the handle struct and its impls.
generate_trait_object(stash, inline_vtable, has_static_bound, attributes, markers) ==
    LET checked == collect([i \in DOMAIN attributes |-> check_attribute(attributes[i])])
        vtable_pointer_cast == IF inline_vtable THEN "as *mut" ELSE "as *mut &'static"
        cast_funcs ==
            IF stash.super_trait # NoName
            THEN <<[name |-> "as_" \o to_snake_case(stash.super_trait), self |-> "&self",
                    ret |-> "Boxed" \o stash.super_trait, body |-> "transmute"],
                   [name |-> "into_" \o to_snake_case(stash.super_trait), self |-> "self",
                    ret |-> "Boxed" \o stash.super_trait, body |-> "transmute"]>>
            ELSE <<>>
        impl_declaration ==
            IF stash.target_impl.kind = "SpecificTraitObject"
            THEN [trait |-> stash.trait_name, kind |-> "for_type",
                  for |-> stash.target_impl.trait_object_name]
            ELSE [trait |-> stash.trait_name, kind |-> "for_all_implementing",
                  for |-> stash.target_impl.trait_name]
    IN IF ~checked.ok THEN checked
       ELSE
       [ok |-> TRUE, err |-> NoName,
        name |-> stash.trait_object_name,
        attributes |-> attributes,
        generics |-> IF has_static_bound THEN "" ELSE "<'inner>",
        marker_impls |-> [i \in DOMAIN markers |->
                            as_impl_for(markers[i], stash.trait_object_name)],
        repr |-> "transparent",
        vtable_name |-> stash.vtable_name,
        repr_name |-> stash.repr_name,
        cast_funcs |-> cast_funcs,
        inherent_impl |-> inherent_impl(stash),
        \* impl Drop: self.vtable().invoke_drop(self.as_raw() as *mut _)
        drop_body |-> <<"vtable", "invoke_drop", "as_raw">>,
        vtable_pointer_cast |-> vtable_pointer_cast,
        impl_declaration |-> impl_declaration,
        impl_thunks |-> [i \in DOMAIN stash.vtable_items |->
            VtableItemToImplThunk(stash.vtable_items[i],
                                  vtable_method_name(stash.target_impl),
                                  data_ptr_method_name(stash.target_impl))]]

(* ------------------------------ options.rs ----------------------------- *)

\* Tokens of the attribute's argument: an identifier (the keywords and
\* `true`, `false` among them), a punctuation mark, a string literal, a
\* path, an outer attribute, and a parenthesised group holding the token
\* sequences its commas separate.
Ident(text) == [t |-> "Ident", text |-> text]

Punct(text) == [t |-> "Punct", text |-> text]

LitStr(text) == [t |-> "LitStr", text |-> text]

PathTok(path) == [t |-> "Path", path |-> path]

AttrTok(attribute) == [t |-> "Attr", attribute |-> attribute]

Group(parts) == [t |-> "Group", parts |-> parts]

\* A value parsed, and the number of tokens of the sequence it took.
Parsed(val, used) == [ok |-> TRUE, err |-> NoName, val |-> val, used |-> used]

\* Punctuated::parse_terminated over the sequences between the commas, given
\* the element parsed of each: an element must be followed by a comma or the
\* end, and the first error ends the parse.
parse_terminated(streams, results) ==
    collect([i \in DOMAIN streams |->
        IF results[i].ok /\ results[i].used < Len(streams[i])
        THEN Err("expected ,")
        ELSE results[i]])

\* A parse of `= value` that takes any token for the value, and for false
\* any but `true`.
parse_eq_anything(tokens) ==
    IF Len(tokens) < 2 \/ tokens[2] # Punct("=") THEN Err("expected =")
    ELSE IF Len(tokens) < 3 THEN Err("expected boolean literal")
    ELSE Parsed(tokens[3] = Ident("true"), 3)

\* `eq: input.parse()?, val: input.parse()?` with val a LitBool, on the
\* tokens after the option's name.
parse_eq_LitBool(tokens) ==
    IF Len(tokens) < 2 \/ tokens[2] # Punct("=") THEN Err("expected =")
    ELSE IF Len(tokens) < 3 \/ tokens[3].t # "Ident" \/ tokens[3].text \notin {"true", "false"}
    THEN Err("expected boolean literal")
    ELSE Parsed(tokens[3].text = "true", 3)

\* `eq: input.parse()?, abi: input.parse()?` with abi a LitStr.
parse_eq_LitStr(tokens) ==
    IF Len(tokens) < 2 \/ tokens[2] # Punct("=") THEN Err("expected =")
    ELSE IF Len(tokens) < 3 \/ tokens[3].t # "LitStr" THEN Err("expected string literal")
    ELSE Parsed(tokens[3].text, 3)

\* parenthesized!(inside_parens in input): the group after the option's name.
parenthesized(tokens) ==
    IF Len(tokens) < 2 \/ tokens[2].t # "Group" THEN Err("expected parentheses")
    ELSE Parsed(tokens[2].parts, 2)

\* Parse for OutputAdditions, on the content of a group: outer attributes,
\* a visibility, a name; what is left in the group is an error.
OutputAdditions_parse(parts) ==
    LET ts == IF parts = <<>> THEN <<>> ELSE parts[1]
        nattr == Cardinality({i \in DOMAIN ts : \A j \in 1..i : ts[j].t = "Attr"})
        vis == nattr < Len(ts) /\ ts[nattr + 1] = Ident("pub")
        at == nattr + (IF vis THEN 1 ELSE 0) + 1
    IN IF at > Len(ts) \/ ts[at].t # "Ident" THEN Err("expected identifier")
       ELSE IF at < Len(ts) \/ Len(parts) > 1 THEN Err("unexpected token")
       ELSE Ok([attributes |-> [i \in 1..nattr |-> ts[i].attribute],
                visibility |-> IF vis THEN "pub" ELSE "inherited",
                name |-> ts[at].text])

\* Parse for MarkerTrait: an optional `unsafe`, then a path.
MarkerTrait_parse(tokens) ==
    LET unsafety == tokens # <<>> /\ tokens[1] = Ident("unsafe")
        at == IF unsafety THEN 2 ELSE 1
    IN IF at > Len(tokens) \/ tokens[at].t # "Path" THEN Err("expected path")
       ELSE Parsed(MarkerTrait(unsafety, tokens[at].path), at)

\* Parse for InheritanceOption
InheritanceOption_parse(tokens) ==
    IF tokens = <<>> \/ tokens[1].t # "Ident" THEN Err("expected identifier")
    ELSE CASE tokens[1].text = "extends" ->
                LET inside_parens == parenthesized(tokens)
                IN IF ~inside_parens.ok THEN inside_parens
                   ELSE IF inside_parens.val = <<>> \/ inside_parens.val[1] = <<>>
                           \/ inside_parens.val[1][1].t # "Path"
                   THEN Err("expected path")
                   ELSE IF Len(inside_parens.val) > 1 \/ Len(inside_parens.val[1]) > 1
                   THEN Err("unexpected token")
                   ELSE Parsed([kind |-> "Extends",
                                super_type |-> inside_parens.val[1][1].path], 2)
           [] tokens[1].text = "possible_super_trait" ->
                LET val == parse_eq_LitBool(tokens)
                IN IF ~val.ok THEN val
                   ELSE Parsed([kind |-> "PossibleSuperTrait", val |-> val.val], val.used)
           [] OTHER -> Err("expected extends, possible_super_trait")

\* Parse for AttrOption
AttrOption_parse(tokens) ==
    IF tokens = <<>> \/ tokens[1].t # "Ident" THEN Err("expected identifier")
    ELSE CASE tokens[1].text \in {"vtable", "trait_object"} ->
                LET inside_parens == parenthesized(tokens)
                    additions == OutputAdditions_parse(inside_parens.val)
                IN IF ~inside_parens.ok THEN inside_parens
                   ELSE IF ~additions.ok THEN additions
                   ELSE Parsed([kind |-> IF tokens[1].text = "vtable" THEN "Vtable"
                                         ELSE "TraitObject",
                                additions |-> additions.val], 2)
           [] tokens[1].text \in {"inline_vtable", "store_layout"} ->
                LET val == parse_eq_LitBool(tokens)
                IN IF ~val.ok THEN val
                   ELSE Parsed([kind |-> IF tokens[1].text = "inline_vtable"
                                         THEN "InlineVtable" ELSE "StoreLayout",
                                val |-> val.val], val.used)
           [] tokens[1].text = "drop_abi" ->
                LET abi == parse_eq_LitStr(tokens)
                IN IF ~abi.ok THEN abi
                   ELSE Parsed([kind |-> "DropAbi", abi |-> abi.val], abi.used)
           [] tokens[1].text = "marker_traits" ->
                LET inside_parens == parenthesized(tokens)
                    marker_traits ==
                        parse_terminated(inside_parens.val,
                            [i \in DOMAIN inside_parens.val |->
                                MarkerTrait_parse(inside_parens.val[i])])
                IN IF ~inside_parens.ok THEN inside_parens
                   ELSE IF ~marker_traits.ok THEN marker_traits
                   ELSE Parsed([kind |-> "MarkerTraits",
                                marker_traits |-> marker_traits.val], 2)
           [] tokens[1].text = "inheritance" ->
                LET inside_parens == parenthesized(tokens)
                    options ==
                        parse_terminated(inside_parens.val,
                            [i \in DOMAIN inside_parens.val |->
                                InheritanceOption_parse(inside_parens.val[i])])
                IN IF ~inside_parens.ok THEN inside_parens
                   ELSE IF ~options.ok THEN options
                   ELSE Parsed([kind |-> "Inheritance", options |-> options.val], 2)
           [] OTHER ->
                Err("expected vtable, inline_vtable, trait_object, drop_abi, inheritance, or marker_traits")

(* ------------------------------- attr.rs ------------------------------- *)

\* Config::default()
DefaultConfig ==
    [vtable_attributes |-> <<>>, vtable_name |-> NoName,
     trait_object_attributes |-> <<>>, trait_object_name |-> NoName,
     inline_vtable |-> FALSE, drop_abi |-> NoName,
     has_marker_traits |-> FALSE, marker_traits |-> <<>>,
     store_layout |-> FALSE, has_inheritance |-> FALSE,
     inheritance |-> DefaultInheritanceConfig]

\* A filter that adds the listed markers to the default ones.
listed_marker_filter_with_defaults(markers, bound) ==
    LET hits == {i \in DOMAIN markers : bound.path = markers[i].path}
    IN IF hits = {} THEN default_marker_filter(bound)
       ELSE SomeMarker(markers[CHOOSE i \in hits : \A j \in hits : i <= j].unsafety)

\* The closure attribute_main builds from a marker_traits(...) list: the
\* first listed marker whose path is the path of the bound.
listed_marker_filter(markers, bound) ==
    LET hits == {i \in DOMAIN markers : bound.path = markers[i].path}
    IN IF hits = {} THEN NoMarker
       ELSE SomeMarker(markers[CHOOSE i \in hits : \A j \in hits : i <= j].unsafety)

\* syn::ItemTrait: the name, the parameters of its generics, the supertrait
\* bounds and the items.
ItemTrait(ident, params, supertraits, items) ==
    [ident |-> ident, params |-> params, supertraits |-> supertraits, items |-> items]

\* An Err(syn::Error) of attribute_main: no artifacts.
Failure(err) == [ok |-> FALSE, err |-> err]

\* attribute_main, from the Config and the ItemTrait parsed of its arguments.
\* `feature` is cfg!(feature = "experimental-inheritance").
attribute_main(config, trait_def, feature) ==
    LET vtable_items ==
            collect([i \in DOMAIN trait_def.items |-> VtableItem_try_from(trait_def.items[i])])
        split ==
            supertraits_to_markers_and_lifetimes(trait_def.supertraits,
                [i \in DOMAIN trait_def.supertraits |->
                    IF trait_def.supertraits[i].kind # "Trait" THEN NoMarker
                    ELSE IF config.has_marker_traits
                    THEN listed_marker_filter(config.marker_traits, trait_def.supertraits[i])
                    ELSE default_marker_filter(trait_def.supertraits[i])])
        has_static_bound == \E i \in DOMAIN split.lifetimes : split.lifetimes[i] = "static"
        vtable_name ==
            IF config.vtable_name # NoName THEN config.vtable_name
            ELSE trait_def.ident \o "Vtable"
        trait_object_name ==
            IF config.trait_object_name # NoName THEN config.trait_object_name
            ELSE "Boxed" \o trait_def.ident
        stash0 ==
            [trait_name |-> trait_def.ident,
             target_impl |-> SpecificTraitObject(trait_object_name),
             super_trait |-> IF config.has_inheritance THEN config.inheritance.extends
                             ELSE NoName,
             vtable_name |-> vtable_name,
             trait_object_name |-> trait_object_name,
             repr_name |-> repr_name_from_trait_name(trait_def.ident),
             vtable_items |-> vtable_items.val]
        pst == handle_possible_super_trait(stash0, config.inheritance)
        ext == handle_extends(pst.stash, config.inheritance)
        stash == IF config.has_inheritance THEN pst.stash ELSE stash0
        trait_object ==
            generate_trait_object(stash, config.inline_vtable, has_static_bound,
                                  config.trait_object_attributes, split.markers)
    IN IF trait_def.params # <<>>
       THEN Failure("generic traits are not yet supported by thin_trait_object")
       ELSE IF ~vtable_items.ok THEN Failure(vtable_items.err)
       ELSE IF config.has_inheritance /\ ~feature THEN Failure("InheritanceNotEnabled")
       ELSE IF config.has_inheritance /\ ~pst.ok THEN Failure(pst.err)
       ELSE IF config.has_inheritance /\ ~ext.ok THEN Failure(ext.err)
       ELSE IF ~trait_object.ok THEN Failure(trait_object.err)
       ELSE [ok |-> TRUE, err |-> NoName,
             stash |-> stash,
             vtable |-> generate_vtable(stash, config.drop_abi, config.store_layout),
             repr |-> generate_repr(stash, config.inline_vtable, config.store_layout),
             trait_object |-> trait_object,
             possible_super_trait |-> IF config.has_inheritance THEN pst.res ELSE NoGlue,
             extends_impl |-> IF config.has_inheritance THEN ext.res ELSE NoGlue]

RECURSIVE InheritanceConfig_fold(_, _)
\* The loop of From<InheritanceOptions> for InheritanceConfig over the
\* options left, res being the configuration so far. The super trait is kept
\* by its simple name (IdentOrPath::simple_name, the last segment), which is
\* all the generated names are made of.
InheritanceConfig_fold(res, opts) ==
    IF opts = <<>> THEN res
    ELSE LET opt == Head(opts)
         IN InheritanceConfig_fold(
                IF opt.kind = "Extends"
                THEN [res EXCEPT !.extends =
                        opt.super_type.segments[Len(opt.super_type.segments)]]
                ELSE [res EXCEPT !.possible_super_trait = opt.val],
                Tail(opts))

\* From<InheritanceOptions> for InheritanceConfig (inheritance.rs)
InheritanceConfig_from(opts) == InheritanceConfig_fold(DefaultInheritanceConfig, opts)

RECURSIVE Config_fold(_, _)
\* The loop of From<AttrOptions> for Config over the options left.
Config_fold(config, options) ==
    IF options = <<>> THEN config
    ELSE LET option == Head(options)
         IN Config_fold(
                CASE option.kind = "Vtable" ->
                        [config EXCEPT !.vtable_attributes = option.additions.attributes,
                                       !.vtable_name = option.additions.name]
                  [] option.kind = "InlineVtable" ->
                        [config EXCEPT !.inline_vtable = option.val]
                  [] option.kind = "TraitObject" ->
                        [config EXCEPT !.trait_object_attributes = option.additions.attributes,
                                       !.trait_object_name = option.additions.name]
                  [] option.kind = "DropAbi" ->
                        [config EXCEPT !.drop_abi = option.abi]
                  [] option.kind = "MarkerTraits" ->
                        [config EXCEPT !.has_marker_traits = TRUE,
                                       !.marker_traits = option.marker_traits]
                  [] option.kind = "StoreLayout" ->
                        [config EXCEPT !.store_layout = option.val]
                  [] option.kind = "Inheritance" ->
                        [config EXCEPT !.has_inheritance = TRUE,
                                       !.inheritance = InheritanceConfig_from(option.options)],
                Tail(options))

\* A configuration that forgets the names given in vtable(...) and
\* trait_object(...).
Config_from_unnamed(options) ==
    [Config_fold(DefaultConfig, options) EXCEPT !.vtable_name = NoName,
                                                  !.trait_object_name = NoName]

\* From<AttrOptions> for Config
Config_from(options) == Config_fold(DefaultConfig, options)

\* An item the attribute is put on: a trait, or an item of another kind.
TraitItemOf(trait_def) == [kind |-> "Trait", def |-> trait_def]

OtherItemOf(kind) == [kind |-> kind, def |-> <<>>]

\* The head of attribute_main: the options parsed of the attribute's tokens
\* (the token sequences its commas separate), the configuration made of
\* them, the trait parsed of the item, and then the stages above.
attribute_main_of_tokens(attr, item, feature) ==
    LET options ==
            parse_terminated(attr, [i \in DOMAIN attr |-> AttrOption_parse(attr[i])])
    IN IF ~options.ok THEN Failure(options.err)
       ELSE IF item.kind # "Trait" THEN Failure("expected trait")
       ELSE attribute_main(Config_from(options.val), item.def, feature)

\* The macro of a crate built with the experimental-inheritance feature,
\* whatever the build asked for.
thin_trait_object_all_features(attr, item, feature) ==
    LET output == attribute_main_of_tokens(attr, item, TRUE)
    IN [item |-> item,
        compile_errors |-> IF output.ok THEN <<>> ELSE <<output.err>>,
        output |-> output]

\* thin_trait_object (lib.rs): the item as written, followed by the
\* generated additions or by the compile_error! of the one error.
thin_trait_object(attr, item, feature) ==
    LET output == attribute_main_of_tokens(attr, item, feature)
    IN [item |-> item,
        compile_errors |-> IF output.ok THEN <<>> ELSE <<output.err>>,
        output |-> output]

(* ------------------- the crate the macro is applied to ----------------- *)

\* The traits annotated with #[thin_trait_object] (examples/inheritance.rs).
TraitNames == {"Bar", "Foo"}

\* The types T handed to new<T>(val: T); each implements both traits.
ImplTypes == {"String", "u64"}

\* ::core::mem::size_of::<T>(), in bytes.
size_of(T) == CASE T = "String" -> 24 [] T = "u64" -> 8 [] T = "usize" -> 8

\* ::core::mem::align_of::<T>(), in bytes.
align_of(T) == CASE T = "String" -> 8 [] T = "u64" -> 8 [] T = "usize" -> 8

\* The item lists the trait Foo is declared with in the crates explored.
FooItemChoices == {<<fooify, poke>>, <<fooify, pair>>}

\* The attribute options of a trait of the crate.
AttrOf(inline_vtable, store_layout, inheritance, extends, possible_super_trait) ==
    [DefaultConfig EXCEPT
        !.inline_vtable = inline_vtable,
        !.store_layout = store_layout,
        !.has_inheritance = inheritance,
        !.inheritance = IF inheritance
                        THEN [extends |-> extends, possible_super_trait |-> possible_super_trait]
                        ELSE DefaultInheritanceConfig]

\* The crates explored, before expansion: Bar and Foo side by side with the
\* same inline_vtable and store_layout settings, or Foo extending Bar as in
\* examples/inheritance.rs with every setting of the two options on each.
Sources ==
    {c \in
     {[feature |-> feature,
      cfg |-> [t \in TraitNames |->
                IF t = "Bar" THEN AttrOf(ib, lb, inh, NoName, TRUE)
                ELSE AttrOf(if, lf, inh, "Bar", FALSE)],
      def |-> [t \in TraitNames |->
                IF t = "Bar" THEN ItemTrait("Bar", <<>>, <<>>, <<baring>>)
                ELSE ItemTrait("Foo", <<>>, <<TraitBound(make_path(<<"Bar">>))>>, fi)]] :
        feature \in BOOLEAN, inh \in BOOLEAN, ib \in BOOLEAN, lb \in BOOLEAN,
        if \in BOOLEAN, lf \in BOOLEAN, fi \in FooItemChoices} :
        \/ c.cfg["Foo"].has_inheritance
        \/ /\ c.cfg["Foo"].inline_vtable = c.cfg["Bar"].inline_vtable
           /\ c.cfg["Foo"].store_layout = c.cfg["Bar"].store_layout}

\* The expansion of every crate explored (thin_trait_object in lib.rs:
\* attribute_main on the tokens of each attribute and its trait).
Expansions ==
    [c \in Sources |-> [t \in TraitNames |-> attribute_main(c.cfg[t], c.def[t], c.feature)]]

\* No layout: that of a crate not built.
NoLayout == <<>>

\* A crate as written, with the code the attributes expand to, not yet built.
Crates == {[src |-> c, art |-> Expansions[c], built |-> FALSE, layout |-> NoLayout] :
            c \in Sources}

\* The expansion of the attribute on trait t of the crate.
Art(t) == crate.art[t]

Range(s) == {s[i] : i \in DOMAIN s}

\* Name resolution in the emitted code: the trait whose table, representation
\* or handle type has the given name.
TraitOfVtableIn(art, name) == CHOOSE t \in TraitNames : art[t].ok /\ art[t].vtable.name = name

TraitOfReprIn(art, name) == CHOOSE t \in TraitNames : art[t].ok /\ art[t].repr.name = name

TraitOfHandleIn(art, name) == CHOOSE t \in TraitNames : art[t].ok /\ art[t].trait_object.name = name

(* --------------------- rustc on the emitted code ----------------------- *)

\* A call's argument list parses: expressions separated by single commas.
ArgsParse(tokens) ==
    /\ tokens # <<>> => Len(tokens) % 2 = 1
    /\ \A i \in DOMAIN tokens : (i % 2 = 0) <=> (tokens[i] = ",")

\* The argument expressions of a call that parses.
ArgExprs(tokens) == [i \in 1..((Len(tokens) + 1) \div 2) |-> tokens[2 * i - 1]]

\* A generated thunk compiles: its call parses, names only parameters of the
\* thunk, and passes as many arguments as the method takes.
ThunkCompiles(thunk, item) ==
    /\ ArgsParse(thunk.call_tokens)
    /\ \A e \in Range(ArgExprs(thunk.call_tokens)) : e \in Range(thunk.signature.inputs)
    /\ Len(ArgExprs(thunk.call_tokens)) = Len(item.inputs) - 1
    /\ \A i, j \in DOMAIN thunk.signature.inputs :
            thunk.signature.inputs[i] = thunk.signature.inputs[j] => i = j

\* The expansion for trait t compiles.
TraitCompilesIn(art, t) ==
    LET a == art[t]
    IN /\ a.ok
       \* the struct literal names exactly the declared fields
       /\ {f.name : f \in Range(a.vtable.fields)} = {e.name : e \in Range(a.repr.vtable_init)}
       /\ Len(a.vtable.fields) = Len(a.repr.vtable_init)
       \* `<T as Trait>::m` is no `unsafe fn(*mut c_void, ..)`
       /\ \A e \in Range(a.repr.vtable_init) : e.kind # "single_hop"
       /\ \A e \in Range(a.repr.vtable_init) :
            e.kind = "thunk" =>
                \E th \in Range(a.repr.thunk_methods) : th.signature.ident = e.val
       /\ \A th \in Range(a.repr.thunk_methods) :
            \E i \in DOMAIN a.stash.vtable_items :
                /\ a.stash.vtable_items[i].name = th.method
                /\ ThunkCompiles(th, a.stash.vtable_items[i])
       \* the super trait's table, representation and capability trait exist
       /\ \A f \in Range(a.vtable.fields) :
            f.kind = "table" => \E s \in TraitNames : art[s].ok /\ art[s].vtable.name = f.ty
       /\ \A e \in Range(a.repr.vtable_init) :
            e.kind = "super_const" => \E s \in TraitNames : art[s].ok /\ art[s].repr.name = e.val
       /\ a.extends_impl.present =>
            \E s \in TraitNames :
                /\ art[s].ok
                /\ art[s].possible_super_trait.present
                /\ art[s].possible_super_trait.trait_decl.name = a.extends_impl.trait
       \* the casts name the super trait's handle type
       /\ \A f \in Range(a.trait_object.cast_funcs) :
            \E s \in TraitNames : art[s].ok /\ art[s].trait_object.name = f.ret

CrateCompilesIn(art) == \A t \in TraitNames : TraitCompilesIn(art, t)

(* -------------------- memory of the emitted program -------------------- *)

\* One pointer-sized word of memory.
Word(k, a, b, c, n) == [k |-> k, a |-> a, b |-> b, c |-> c, n |-> n]

\* No word: the function called when none was.
NoWord == Word("none", NoName, NoName, NoName, 0)

\* The function pointer `Repr<T>::thunk`, repr naming the representation struct.
FnWord(repr, T, thunk) == Word("fn", repr, T, thunk, 0)

\* The function pointer `<T as Trait>::m`.
DirectWord(trait, T, m) == Word("direct", trait, T, m, 0)

\* The function pointer `Repr<T>::__thintraitobjectmacro_repr_drop`.
DropWord(repr, T) == Word("dropfn", repr, T, "__thintraitobjectmacro_repr_drop", 0)

UsizeWord(n) == Word("usize", NoName, NoName, NoName, n)

\* `&Repr<T>::__THINTRAITOBJECTMACRO_VTABLE`
RefWord(repr, T) == Word("ref", repr, T, NoName, 0)

\* Word i of the value of type T wrapped by allocation id.
ValWord(T, id, i) == Word("val", NoName, T, ToString(i), id)

\* The words of a value of type T.
ValWords(T, id) == [i \in 1..(size_of(T) \div size_of("usize")) |-> ValWord(T, id, i)]

RECURSIVE VtableWordsIn(_, _, _)
\* The constant Repr<T>::__THINTRAITOBJECTMACRO_VTABLE of trait t: the
\* declared fields in declaration order (#[repr(C)]), each with the value its
\* initialiser gives it.
VtableWordsIn(art, t, T) ==
    LET a == art[t]
        init(name) == CHOOSE e \in Range(a.repr.vtable_init) : e.name = name
        value(f) ==
            LET e == init(f.name)
            IN CASE e.kind = "super_const" -> VtableWordsIn(art, TraitOfReprIn(art, e.val), T)
                 [] e.kind = "size_of" -> <<UsizeWord(size_of(T))>>
                 [] e.kind = "align_of" -> <<UsizeWord(align_of(T))>>
                 [] e.kind = "thunk" -> <<FnWord(a.repr.name, T, e.val)>>
                 [] e.kind = "single_hop" -> <<DirectWord(a.repr.trait_name, T, e.val)>>
                 [] e.kind = "repr_drop" -> <<DropWord(e.val, T)>>
    IN Concat([i \in DOMAIN a.vtable.fields |-> value(a.vtable.fields[i])])

RECURSIVE FlatKindsIn(_, _)
\* The kinds of the words of trait t's table struct, embedded tables included.
FlatKindsIn(art, t) ==
    LET fs == art[t].vtable.fields
    IN Concat([i \in DOMAIN fs |->
            IF fs[i].kind = "table" THEN FlatKindsIn(art, TraitOfVtableIn(art, fs[i].ty))
            ELSE <<fs[i].kind>>])

\* size_of of trait t's table struct, in words.
VtableWidthIn(art, t) == Len(FlatKindsIn(art, t))

\* The word offset of field `name` in trait t's table struct.
FieldOffsetIn(art, t, name) ==
    LET fs == art[t].vtable.fields
        i == CHOOSE j \in DOMAIN fs : fs[j].name = name
    IN Len(Concat([j \in 1..(i - 1) |->
            IF fs[j].kind = "table" THEN FlatKindsIn(art, TraitOfVtableIn(art, fs[j].ty))
            ELSE <<fs[j].kind>>]))

\* The word offset of the wrapped value in the #[repr(C)] representation
\* struct of trait t: the size of its first field.
ValueOffsetIn(art, t) ==
    IF art[t].repr.fields[1].ty = "value" THEN VtableWidthIn(art, t) ELSE 1

\* What building a crate fixes, from its expansion art: whether rustc
\* accepts it and, if so, for each trait the layout of its table struct
\* (the kinds of its words, the offset of each field, the embedded
\* super-table's trait), the offset of the value in its representation
\* struct, and its table constant for each implementing type.
Link(art) ==
    IF ~CrateCompilesIn(art) THEN [compiles |-> FALSE]
    ELSE [compiles |-> TRUE,
          layout |-> [t \in TraitNames |->
            [kinds |-> FlatKindsIn(art, t),
             offset |-> [n \in {f.name : f \in Range(art[t].vtable.fields)} |->
                            FieldOffsetIn(art, t, n)],
             value_offset |-> ValueOffsetIn(art, t),
             constant |-> [T \in ImplTypes |-> VtableWordsIn(art, t, T)]]]]

\* rustc accepts the crate of the behaviour.
CrateCompiles == Link(crate.art).compiles

TraitOfVtable(name) == TraitOfVtableIn(crate.art, name)

TraitOfRepr(name) == TraitOfReprIn(crate.art, name)

TraitOfHandle(name) == TraitOfHandleIn(crate.art, name)

\* The layouts and constants of the built crate of the behaviour.
FlatKinds(t) == crate.layout[t].kinds

VtableWidth(t) == Len(FlatKinds(t))

FieldOffset(t, name) == crate.layout[t].offset[name]

ValueOffset(t) == crate.layout[t].value_offset

VtableWords(t, T) == crate.layout[t].constant[T]

\* __thintraitobjectmacro_repr_create's Box::new(#ctor_val): the words of a
\* representation struct of trait t wrapping value id of type T.
ReprWords(t, T, id) ==
    (IF Art(t).repr.ctor_val = "copy" THEN VtableWords(t, T)
     ELSE <<RefWord(Art(t).repr.name, T)>>) \o ValWords(T, id)

\* The words of allocation p.
HeapWords(p) == ReprWords(heap[p].tr, heap[p].ty, p)

\* What a read yields that finds no value of the type read.
Garbage == <<>>

\* Reading a table of trait t at the start of `words`.
ReadTable(words, t) ==
    LET ks == FlatKinds(t)
    IN IF Len(words) >= Len(ks) /\ \A i \in DOMAIN ks : words[i].k = ks[i]
       THEN SubSeq(words, 1, Len(ks))
       ELSE Garbage

\* Reading the value of type T at word offset off of `words`: the id of the
\* value found there, 0 when the words are not such a value.
ReadValue(words, off, T) ==
    LET n == size_of(T) \div size_of("usize")
    IN IF /\ Len(words) >= off + n
          /\ \A i \in 1..n : words[off + i].k = "val" /\ words[off + i].b = T
                             /\ words[off + i].c = ToString(i)
                             /\ words[off + i].n = words[off + 1].n
       THEN words[off + 1].n
       ELSE 0

(* ------------------ the emitted handle and its table ------------------- *)

\* from_raw: Self(NonNull::new_unchecked(ptr), PhantomData), for the handle
\* type of trait X.  The other fields are history kept for the properties:
\* how the handle was made (via), whether another live handle held the
\* address then (aliased), whether into_raw consumed it (released), whether
\* it went through a cast (cast), and the invoke_drop calls of its teardown
\* with the address of the last (drops, arg).
from_raw(ptr, X) ==
    [st |-> "live", ptr |-> ptr, tr |-> X,
     via |-> "from_raw", aliased |-> FALSE, released |-> FALSE, cast |-> FALSE,
     drops |-> 0, arg |-> 0]

\* as_raw: self.0.as_ptr()
as_raw(hd) == hd.ptr

\* ::core::mem::forget(self): the handle is gone and its destructor never runs.
forget(hd) == [hd EXCEPT !.st = "forgotten"]

\* An into_raw without its mem::forget: the handle is still torn down.
into_raw_without_forget(hd) ==
    [ret |-> as_raw(hd), self |-> [hd EXCEPT !.released = TRUE]]

\* into_raw: the pointer returned and the handle left behind.
into_raw(hd) ==
    LET pointer == as_raw(hd)
    IN [ret |-> pointer, self |-> [forget(hd) EXCEPT !.released = TRUE]]

\* A vtable() that reads the stored pointer with the cast of the other
\* inline_vtable setting.
vtable_with_other_cast(hd) ==
    LET words == HeapWords(as_raw(hd))
    IN IF Art(hd.tr).trait_object.vtable_pointer_cast # "as *mut"
       THEN ReadTable(words, hd.tr)
       ELSE IF words[1].k = "ref"
            THEN ReadTable(VtableWords(TraitOfRepr(words[1].a), words[1].b), hd.tr)
            ELSE Garbage

\* vtable(): `&*(self.0.as_ptr() #vtable_pointer_cast #vtable_name)`
vtable(hd) ==
    LET words == HeapWords(as_raw(hd))
    IN IF Art(hd.tr).trait_object.vtable_pointer_cast = "as *mut"
       THEN ReadTable(words, hd.tr)
       ELSE IF words[1].k = "ref"
            THEN ReadTable(VtableWords(TraitOfRepr(words[1].a), words[1].b), hd.tr)
            ELSE Garbage

\* The embedded super-table of a table of trait t.
super_trait_vtable(table, t) ==
    LET fs == Art(t).vtable.fields
        f == CHOOSE g \in Range(fs) : g.name = "super_trait_vtable"
        off == FieldOffset(t, "super_trait_vtable")
    IN SubSeq(table, off + 1, off + VtableWidth(TraitOfVtable(f.ty)))

\* An invoke_drop that calls the first slot of its table, forwarding nowhere.
invoke_drop_first_slot(table, t, ptr) == [fn |-> table[1], arg |-> ptr, hops |-> 0]

RECURSIVE invoke_drop(_, _, _)
\* invoke_drop of trait t's table type on a table value: the destructor field
\* finally called, the address it is called with, and the tables forwarded
\* through.
invoke_drop(table, t, ptr) ==
    IF Art(t).vtable.drop_impl = "drop"
    THEN [fn |-> table[FieldOffset(t, "drop") + 1], arg |-> ptr, hops |-> 0]
    ELSE LET f == CHOOSE g \in Range(Art(t).vtable.fields) : g.name = "super_trait_vtable"
             r == invoke_drop(super_trait_vtable(table, t), TraitOfVtable(f.ty), ptr)
         IN [r EXCEPT !.hops = @ + 1]

\* A Drop impl that calls invoke_drop twice.
drop_calls_twice(hd) == <<as_raw(hd), as_raw(hd)>>

\* A Drop impl that does nothing.
drop_calls_none(hd) == <<>>

\* impl Drop: the addresses drop() calls self.vtable().invoke_drop with.
drop_calls(hd) == <<as_raw(hd)>>

\* __thintraitobjectmacro_repr_drop of the representation struct named by
\* the function pointer w, called with address p, is Box::from_raw(p as *mut
\* Repr<T>) going out of scope: defined when a T lies where Repr<T> has its
\* value and Repr<T> has the size allocation p was made with.
repr_drop_defined(w, p) ==
    LET r == TraitOfRepr(w.a)
        n == size_of(w.b) \div size_of("usize")
    IN /\ ReadValue(HeapWords(p), ValueOffset(r), w.b) = p
       /\ ValueOffset(r) + n = Len(HeapWords(p))

RECURSIVE ResolveVtable(_, _)
\* self.#method() for a method returning a table, on a receiver hd: the
\* inherent vtable(), or a capability-trait method through the impl of that
\* trait for hd's type (handle_possible_super_trait's or handle_extends').
ResolveVtable(hd, method) ==
    LET a == Art(hd.tr)
    IN IF method = "vtable" THEN vtable(hd)
       ELSE IF a.possible_super_trait.present
               /\ a.possible_super_trait.blanket_impl.vtable_method = method
       THEN ResolveVtable(hd, a.possible_super_trait.blanket_impl.vtable_body)
       ELSE IF a.extends_impl.present /\ a.extends_impl.vtable_method = method
       THEN LET t == ResolveVtable(hd, a.extends_impl.vtable_body[1])
            IN IF t = Garbage THEN Garbage ELSE super_trait_vtable(t, hd.tr)
       ELSE Garbage

\* self.#data_ptr_method_name() on a receiver hd.
ResolveDataPtr(hd, method) ==
    LET a == Art(hd.tr)
    IN IF method = "as_raw" THEN as_raw(hd)
       ELSE IF a.possible_super_trait.present
               /\ a.possible_super_trait.blanket_impl.data_ptr = "as_raw"
       THEN as_raw(hd)
       ELSE IF a.extends_impl.present /\ a.extends_impl.data_ptr = "as_raw"
       THEN as_raw(hd)
       ELSE 0

\* The handle type of trait X implements trait S: S's own impl, or S's impl
\* for every implementor of its capability trait, which X's glue implements.
Implements(X, S) ==
    \/ X = S
    \/ /\ Art(S).trait_object.impl_declaration.kind = "for_all_implementing"
       /\ Art(X).extends_impl.present
       /\ Art(X).extends_impl.trait = Art(S).trait_object.impl_declaration.for

\* The index of method m among the items of trait S, 0 if it has none.
MethodIndex(S, m) ==
    LET items == Art(S).stash.vtable_items
    IN IF \E i \in DOMAIN items : items[i].name = m
       THEN CHOOSE i \in DOMAIN items : items[i].name = m
       ELSE 0

\* What T's implementation of method m returns when called on value v with
\* arguments args.
Result(m, T, v, args) == [of |-> m, by |-> T, on |-> v, with |-> args]

\* No result: that of a call that left defined behaviour.
NoResult == Result(NoName, NoName, 0, <<>>)

\* What a call of a function pointer found in a table does: the thunk
\* write_thunk emitted, run on the actual arguments.  [ub, m, ty, self, args]:
\* the method of type ty finally called, the value it is called on and its
\* arguments.
call_thunk(w, actuals) ==
    LET r == TraitOfRepr(w.a)
        th == CHOOSE x \in Range(Art(r).repr.thunk_methods) : x.signature.ident = w.c
        params == th.signature.inputs
        bound(name) == actuals[CHOOSE i \in DOMAIN params : params[i] = name]
        self == ReadValue(HeapWords(bound(nth_arg(0))), ValueOffset(r), w.b)
        exprs == ArgExprs(th.call_tokens)
    IN [ub |-> IF self = 0 THEN "bad_layout" ELSE "none",
        m |-> th.method, ty |-> w.b, self |-> self,
        args |-> [i \in DOMAIN exprs |-> bound(exprs[i])],
        ret |-> IF self = 0 THEN NoResult
                ELSE Result(th.method, w.b, self, [i \in DOMAIN exprs |-> bound(exprs[i])])]

\* The forwarding method m of trait S emitted on the handle, called on hd with
\* argument values argv: `((self.#vtable_method()).#call_name)(#call_args)`.
dispatch(hd, S, m, argv) ==
    LET impl == Art(S).trait_object.impl_thunks[MethodIndex(S, m)]
        table == ResolveVtable(hd, impl.vtable_method)
        params == impl.signature.inputs
        exprs == ArgExprs(impl.call_tokens)
        value(e) ==
            IF \E i \in DOMAIN params : params[i] = e /\ e # "self"
            THEN argv[(CHOOSE i \in DOMAIN params : params[i] = e) - 1]
            ELSE ResolveDataPtr(hd, data_ptr_method_name(Art(S).stash.target_impl))
        actuals == [i \in DOMAIN exprs |-> value(exprs[i])]
        slot == table[FieldOffset(S, impl.call_name) + 1]
    IN IF table = Garbage
       THEN [ub |-> "bad_vtable", m |-> NoName, ty |-> NoName, self |-> 0, args |-> <<>>,
             recv |-> 0, fn |-> NoWord, ret |-> NoResult]
       ELSE IF slot.k # "fn"
       THEN [ub |-> "bad_fn", m |-> NoName, ty |-> NoName, self |-> 0, args |-> <<>>,
             recv |-> actuals[1], fn |-> slot, ret |-> NoResult]
       ELSE LET r == call_thunk(slot, actuals)
            IN [ub |-> r.ub, m |-> r.m, ty |-> r.ty, self |-> r.self, args |-> r.args,
                recv |-> actuals[1], fn |-> slot, ret |-> r.ret]

(* ------------------------- the running program ------------------------- *)

\* The record of the operation that ran last: the handle and address it was
\* about, the trait and method called with which arguments on which value of
\* which type, and for a teardown the destructor reached and the tables
\* forwarded through.
Obs(op, h, ptr) ==
    [op |-> op, h |-> h, ptr |-> ptr, tr |-> NoName, m |-> NoName, given |-> <<>>,
     callee |-> NoName, args |-> <<>>, self |-> 0, ty |-> NoName, recv |-> 0,
     hops |-> 0, fn |-> NoWord, ret |-> NoResult]

\* The values passed for the non-receiver parameters of method m of trait S.
ArgVals(S, m) ==
    [1..(Len(Art(S).stash.vtable_items[MethodIndex(S, m)].inputs) - 1) -> 1..MaxArgVal]

\* A program of the crate is running and has not left defined behaviour.
Running == crate.built /\ ub = "none"

Live(h) == h \in DOMAIN handles /\ handles[h].st = "live"

Init ==
    /\ crate \in {c \in Crates : c.src.feature => c.src.cfg["Foo"].has_inheritance}
    /\ heap = <<>>
    /\ handles = <<>>
    /\ raws = {}
    /\ obs = Obs("none", 0, 0)
    /\ ub = "none"

\* rustc accepts the crate with the emitted code.
Build ==
    /\ ~crate.built
    /\ CrateCompiles
    /\ crate' = [crate EXCEPT !.built = TRUE, !.layout = Link(crate.art).layout]
    /\ UNCHANGED <<heap, handles, raws, obs, ub>>

\* BoxedT::new(val): from_raw(__thintraitobjectmacro_repr_create(val))
New(t, T) ==
    /\ Running
    /\ Len(heap) < MaxAllocs /\ Len(handles) < MaxHandles
    /\ LET p == Len(heap) + 1
       IN /\ heap' = Append(heap, [st |-> "live", tr |-> t, ty |-> T, drop_runs |-> 0])
          /\ handles' = Append(handles, [from_raw(p, t) EXCEPT !.via = "new"])
          /\ obs' = Obs("new", Len(handles) + 1, p)
    /\ UNCHANGED <<crate, raws, ub>>

\* handle.m(argv), m a method of trait S implemented by the handle's type.
Call(h, S, m, argv) ==
    /\ Running /\ Live(h)
    /\ Implements(handles[h].tr, S) /\ MethodIndex(S, m) # 0
    /\ argv \in ArgVals(S, m)
    /\ LET hd == handles[h]
           o == [Obs("call", h, as_raw(hd)) EXCEPT !.tr = S, !.m = m, !.given = argv]
       IN IF heap[as_raw(hd)].st # "live"
          THEN /\ ub' = "use_after_free"
               /\ obs' = o
          ELSE LET r == dispatch(hd, S, m, argv)
               IN /\ ub' = r.ub
                  /\ obs' = [o EXCEPT !.callee = r.m,
                                      !.args = r.args, !.self = r.self,
                                      !.ty = r.ty, !.recv = r.recv, !.fn = r.fn,
                                      !.ret = r.ret]
    /\ UNCHANGED <<crate, heap, handles, raws>>

\* An as_raw that gives up the handle as into_raw does.
AsRaw_forgetting(h) ==
    /\ Running /\ Live(h)
    /\ raws' = raws \cup {as_raw(handles[h])}
    /\ handles' = [handles EXCEPT ![h] = forget(@)]
    /\ obs' = Obs("as_raw", h, as_raw(handles[h]))
    /\ UNCHANGED <<crate, heap, ub>>

\* handle.as_raw()
AsRaw(h) ==
    /\ Running /\ Live(h)
    /\ raws' = raws \cup {as_raw(handles[h])}
    /\ obs' = Obs("as_raw", h, as_raw(handles[h]))
    /\ UNCHANGED <<crate, heap, handles, ub>>

\* handle.into_raw()
IntoRaw(h) ==
    /\ Running /\ Live(h)
    /\ LET r == into_raw(handles[h])
       IN /\ handles' = [handles EXCEPT ![h] = r.self]
          /\ raws' = raws \cup {r.ret}
          /\ obs' = Obs("into_raw", h, r.ret)
    /\ UNCHANGED <<crate, heap, ub>>

\* mem::forget(handle)
Forget(h) ==
    /\ Running /\ Live(h)
    /\ handles' = [handles EXCEPT ![h] = forget(@)]
    /\ obs' = Obs("forget", h, handles[h].ptr)
    /\ UNCHANGED <<crate, heap, raws, ub>>

\* let moved = handle; the handle value is the same at its new place, and
\* the place moved from can no longer be named.
Move(h) ==
    /\ Running /\ Live(h)
    /\ handles' = [handles EXCEPT ![h] = handles[h]]
    /\ obs' = Obs("move", h, handles[h].ptr)
    /\ UNCHANGED <<crate, heap, raws, ub>>

\* BoxedT::from_raw(p), p a pointer as_raw or into_raw returned earlier and
\* BoxedT the handle type allocation p was created for.
FromRaw(p) ==
    /\ Running
    /\ p \in raws
    /\ Len(handles) < MaxHandles
    /\ handles' = Append(handles,
            [from_raw(p, heap[p].tr) EXCEPT
                !.aliased = \E g \in DOMAIN handles : Live(g) /\ handles[g].ptr = p])
    /\ obs' = Obs("from_raw", Len(handles) + 1, p)
    /\ UNCHANGED <<crate, heap, raws, ub>>

\* One `self.vtable().invoke_drop(p)` of handle hd's teardown, from the
\* heap and behaviour s.  Reading the table of a freed allocation is undefined
\* behaviour: the build may find the stale table and run its destructor
\* again (stale), or not.
teardown_call(s, hd, p, stale) ==
    IF s.ub # "none" THEN s
    ELSE IF s.heap[as_raw(hd)].st # "live"
    THEN IF stale
         THEN [s EXCEPT !.ub = "use_after_free", !.calls = @ + 1, !.arg = p,
                        !.fnarg = p, !.heap[p].drop_runs = @ + 1]
         ELSE [s EXCEPT !.ub = "use_after_free"]
    ELSE IF vtable(hd) = Garbage THEN [s EXCEPT !.ub = "bad_vtable"]
    ELSE LET r == invoke_drop(vtable(hd), hd.tr, p)
             s1 == [s EXCEPT !.calls = @ + 1, !.arg = p, !.hops = r.hops,
                             !.fn = r.fn, !.fnarg = r.arg]
         IN IF r.fn.k # "dropfn" \/ r.arg \notin DOMAIN s.heap
            THEN [s1 EXCEPT !.ub = "bad_fn"]
            ELSE IF s.heap[r.arg].st # "live"
            THEN [s1 EXCEPT !.ub = "use_after_free", !.heap[r.arg].drop_runs = @ + 1]
            ELSE IF repr_drop_defined(r.fn, r.arg)
            THEN [s1 EXCEPT !.heap[r.arg].st = "freed", !.heap[r.arg].drop_runs = @ + 1]
            ELSE [s1 EXCEPT !.ub = "bad_layout", !.heap[r.arg].drop_runs = @ + 1]

RECURSIVE teardown(_, _, _, _)
\* <BoxedT as Drop>::drop: its invoke_drop calls in order.
teardown(s, hd, calls, stale) ==
    IF calls = <<>> THEN s
    ELSE teardown(teardown_call(s, hd, Head(calls), stale), hd, Tail(calls), stale)

\* The handle goes out of scope.
Drop(h) ==
    /\ Running /\ Live(h)
    /\ \E stale \in BOOLEAN :
        LET hd == handles[h]
            s0 == [heap |-> heap, ub |-> "none", calls |-> 0, arg |-> 0, hops |-> 0,
                   fn |-> NoWord, fnarg |-> 0]
            s == teardown(s0, hd, drop_calls(hd), stale)
        IN /\ stale => s.ub = "use_after_free"
           /\ heap' = s.heap
           /\ ub' = s.ub
           /\ handles' = [handles EXCEPT ![h] =
                            [@ EXCEPT !.st = "dropped", !.drops = s.calls, !.arg = s.arg]]
           /\ obs' = [Obs("drop", h, as_raw(hd)) EXCEPT
                        !.hops = s.hops, !.fn = s.fn, !.recv = s.fnarg]
    /\ UNCHANGED <<crate, raws>>

\* The super trait a handle of trait X casts to, NoName if X has no casts.
SuperOf(X) ==
    LET fs == Art(X).trait_object.cast_funcs
    IN IF fs = <<>> THEN NoName ELSE TraitOfHandle(fs[1].ret)

\* handle.into_<super>(): core::mem::transmute(self), the same bits as a
\* handle of the super trait's type.
IntoSuper(h) ==
    /\ Running /\ Live(h)
    /\ SuperOf(handles[h].tr) # NoName
    /\ handles' = [handles EXCEPT ![h].tr = SuperOf(handles[h].tr), ![h].cast = TRUE]
    /\ obs' = [Obs("into_super", h, handles[h].ptr) EXCEPT !.tr = SuperOf(handles[h].tr)]
    /\ UNCHANGED <<crate, heap, raws, ub>>

\* handle.as_<super>().m(argv): the call through core::mem::transmute(&self).
AsSuperCall(h, m, argv) ==
    /\ Running /\ Live(h)
    /\ SuperOf(handles[h].tr) # NoName
    /\ LET S == SuperOf(handles[h].tr)
           view == [handles[h] EXCEPT !.tr = S]
           o == [Obs("as_super_call", h, as_raw(view)) EXCEPT
                    !.tr = S, !.m = m, !.given = argv]
       IN /\ MethodIndex(S, m) # 0
          /\ argv \in ArgVals(S, m)
          /\ IF heap[as_raw(view)].st # "live"
             THEN /\ ub' = "use_after_free"
                  /\ obs' = o
             ELSE LET r == dispatch(view, S, m, argv)
                  IN /\ ub' = r.ub
                     /\ obs' = [o EXCEPT !.callee = r.m,
                                         !.args = r.args, !.self = r.self,
                                         !.ty = r.ty, !.recv = r.recv, !.fn = r.fn,
                                      !.ret = r.ret]
    /\ UNCHANGED <<crate, heap, handles, raws>>

\* The names of the methods of trait S; none when its expansion failed.
MethodsOf(S) ==
    IF Art(S).ok THEN {Art(S).stash.vtable_items[i].name : i \in DOMAIN Art(S).stash.vtable_items}
    ELSE {}

Handles == 1..MaxHandles

Next ==
    \/ Build
    \/ \E t \in TraitNames, T \in ImplTypes : New(t, T)
    \/ \E h \in Handles, S \in TraitNames : \E m \in MethodsOf(S) :
            \E argv \in ArgVals(S, m) : Call(h, S, m, argv)
    \/ \E h \in Handles : AsRaw(h)
    \/ \E h \in Handles : IntoRaw(h)
    \/ \E h \in Handles : Forget(h)
    \/ \E h \in Handles : Move(h)
    \/ \E p \in 1..MaxAllocs : FromRaw(p)
    \/ \E h \in Handles : Drop(h)
    \/ \E h \in Handles : IntoSuper(h)
    \/ \E h \in Handles, S \in TraitNames : \E m \in MethodsOf(S) :
            \E argv \in ArgVals(S, m) : AsSuperCall(h, m, argv)

Spec == Init /\ [][Next]_vars

\* The programs that use only the safe operations new, method calls,
\* as_raw, moves and teardown.
SafeNext ==
    \/ Build
    \/ \E t \in TraitNames, T \in ImplTypes : New(t, T)
    \/ \E h \in Handles, S \in TraitNames : \E m \in MethodsOf(S) :
            \E argv \in ArgVals(S, m) : Call(h, S, m, argv)
    \/ \E h \in Handles : AsRaw(h)
    \/ \E h \in Handles : Move(h)
    \/ \E h \in Handles : Drop(h)

SafeSpec == Init /\ [][SafeNext]_vars

(* ------------------ the attribute applied to one item ------------------ *)

\* The longest attribute explored, in options.
MaxOptions == 2

\* The longest trait body explored, in items.
MaxItems == 2

\* The longest supertrait list explored, in bounds.
MaxBounds == 2

\* The sequences over S of length at most n.
SeqUpTo(S, n) == UNION {[1..k -> S] : k \in 0..n}

\* `name = value`
KeyValue(name, value) == <<Ident(name), Punct("="), value>>

\* `name(parts)`
KeyGroup(name, parts) == <<Ident(name), Group(parts)>>

\* Attributes written inside trait_object(...) and vtable(...).
doc_attribute == Attribute(<<"doc">>, <<LitStr("a handle")>>)

derive_attribute == Attribute(<<"derive">>, <<Ident("Clone")>>)

repr_attribute == Attribute(<<"repr">>, <<Ident("C")>>)

\* `#[cfg_attr(all(), derive(Clone))]` and `#[cfg_attr(all(), repr(C))]`
cfg_attr_derive == Attribute(<<"cfg_attr">>, <<Ident("all"), AttrTok(derive_attribute)>>)

cfg_attr_repr == Attribute(<<"cfg_attr">>, <<Ident("all"), AttrTok(repr_attribute)>>)

\* The paths written in the attributes and the supertrait lists explored.
SendPath == make_path(<<"Send">>)

FullSendPath == make_path(<<"core", "marker", "Send">>)

\* `core::marker::Send`, without the leading colons
RelativeSendPath == Path(FALSE, <<"core", "marker", "Send">>)

UnpinPath == make_path(<<"Unpin">>)

SafeMarkerPath == make_path(<<"SafeMarker">>)

BarPath == make_path(<<"Bar">>)

\* The options written in the attributes explored: each key with values
\* that parse and values that do not, and keys the macro does not know.
ConfigOptionChoices ==
    {KeyValue("inline_vtable", Ident("true")),
     KeyValue("inline_vtable", Ident("maybe")),
     KeyValue("store_layout", Ident("true")),
     KeyValue("store_layout", LitStr("yes")),
     KeyValue("inline_vtable", Ident("false")) \o <<Ident("store_layout")>>,
     KeyValue("drop_abi", LitStr("C")),
     KeyValue("frobnicate", Ident("true")),
     KeyGroup("vtable", <<<<Ident("pub"), Ident("FooVtable")>>>>),
     KeyGroup("vtable", <<<<AttrTok(doc_attribute), Ident("MyVtable")>>>>),
     KeyGroup("trait_object", <<<<Ident("pub"), Ident("MyFoo")>>>>),
     KeyGroup("trait_object", <<<<AttrTok(doc_attribute), Ident("BoxedFoo")>>>>),
     KeyGroup("trait_object", <<<<AttrTok(derive_attribute), Ident("BoxedFoo")>>>>),
     KeyGroup("trait_object", <<<<AttrTok(doc_attribute), AttrTok(repr_attribute),
                                  Ident("BoxedFoo")>>>>),
     KeyGroup("trait_object", <<<<AttrTok(cfg_attr_derive), Ident("BoxedFoo")>>>>),
     KeyGroup("trait_object", <<<<AttrTok(cfg_attr_repr), Ident("BoxedFoo")>>>>),
     KeyGroup("marker_traits", <<>>),
     KeyGroup("marker_traits", <<<<Ident("unsafe")>>>>),
     KeyGroup("inheritance", <<>>),
     KeyGroup("inheritance", <<<<Ident("extends"), Group(<<<<PathTok(BarPath)>>>>)>>>>),
     KeyGroup("inheritance", <<KeyValue("possible_super_trait", Ident("true"))>>),
     KeyGroup("inheritance", <<KeyValue("possible_super_trait", Ident("maybe"))>>),
     KeyGroup("inheritance", <<<<Ident("extends"), Group(<<<<PathTok(BarPath)>>>>)>>,
                               KeyValue("possible_super_trait", Ident("true"))>>),
     KeyGroup("inheritance", <<KeyValue("implements", Ident("true"))>>)}

\* The marker_traits(...) options explored.
MarkerOptionChoices ==
    {KeyGroup("marker_traits", <<>>),
     KeyGroup("marker_traits", <<<<PathTok(SendPath)>>>>),
     KeyGroup("marker_traits", <<<<PathTok(SafeMarkerPath)>>,
                                 <<Ident("unsafe"), PathTok(UnpinPath)>>>>),
     KeyGroup("marker_traits", <<<<PathTok(SafeMarkerPath)>>,
                                 <<Ident("unsafe"), PathTok(SafeMarkerPath)>>>>),
     KeyGroup("marker_traits", <<<<Ident("unsafe"), PathTok(FullSendPath)>>,
                                 <<PathTok(FullSendPath)>>>>)}

\* The supertrait bounds explored: capability traits by short name, by the
\* table's path and by another path, a trait of the crate, and lifetimes.
BoundChoices ==
    {TraitBound(SendPath), TraitBound(FullSendPath), TraitBound(RelativeSendPath),
     TraitBound(make_path(<<"Sync">>)), TraitBound(make_path(<<"RefUnwindSafe">>)),
     TraitBound(UnpinPath), TraitBound(make_path(<<"std", "panic", "UnwindSafe">>)),
     TraitBound(SafeMarkerPath), LifetimeBound("static"), LifetimeBound("a")}

\* The items explored in a trait body: methods the macro supports and one
\* for each thing it does not, and items that are no methods.
ItemChoices ==
    {fooify, poke,
     \* fn set(&mut self, value: i32);
     Method("set", FALSE, NoGenerics, <<FnArgReceiver(TRUE, TRUE), Typed("value", "i32")>>),
     \* fn borrow<'a>(&'a self, from: &'a str);
     Method("borrow", FALSE, Generics(<<GenericParam("Lifetime", "a")>>, FALSE),
            <<FnArgReceiver(TRUE, FALSE), Typed("from", "&'a str")>>),
     \* fn get(self) -> i32;
     Method("get", FALSE, NoGenerics, <<FnArgReceiver(FALSE, FALSE)>>),
     \* fn take(self: Self);
     Method("take", FALSE, NoGenerics, <<Typed("self", "Self")>>),
     \* fn unbox(self: Box<Self>);
     Method("unbox", FALSE, NoGenerics, <<Typed("self", "Box<Self>")>>),
     \* fn make(seed: i32) -> Self;
     Method("make", FALSE, NoGenerics, <<Typed("seed", "i32")>>),
     \* fn version() -> u32;
     Method("version", FALSE, NoGenerics, <<>>),
     \* async fn wait(&self);
     Method("wait", TRUE, NoGenerics, <<FnArgReceiver(TRUE, FALSE)>>),
     \* fn f<U>(&self, x: U);
     Method("f", FALSE, Generics(<<GenericParam("Type", "U")>>, FALSE),
            <<FnArgReceiver(TRUE, FALSE), Typed("x", "U")>>),
     \* fn g<const K: usize>(&self);
     Method("g", FALSE, Generics(<<GenericParam("Const", "K")>>, FALSE),
            <<FnArgReceiver(TRUE, FALSE)>>),
     \* fn w(&self) where Self: Sized;
     Method("w", FALSE, Generics(<<>>, TRUE), <<FnArgReceiver(TRUE, FALSE)>>),
     read_raw, log, blend,
     \* const N: i32;  type Out;  a macro invocation;  tokens syn keeps verbatim
     OtherItem("Const"), OtherItem("Type"), OtherItem("Macro"), OtherItem("Verbatim")}

\* One use of the attribute: its tokens, the item it is on, and whether the
\* macro crate is built with the experimental-inheritance feature.
Invocation(attr, item, feature) == [attr |-> attr, item |-> item, feature |-> feature]

\* The uses explored. First, every attribute of up to MaxOptions options on
\* a small trait, a trait with an unsupported item, a generic trait and a
\* struct.
ConfigInvocations ==
    {Invocation(attr, item, feature) :
        attr \in SeqUpTo(ConfigOptionChoices, MaxOptions),
        item \in {TraitItemOf(ItemTrait("Foo", <<>>, <<>>, <<fooify>>)),
                  TraitItemOf(ItemTrait("Bar", <<>>, <<>>, <<read_raw, baring>>)),
                  TraitItemOf(ItemTrait("Foo", <<>>, <<>>, <<fooify, OtherItem("Const")>>)),
                  TraitItemOf(ItemTrait("Foo", <<GenericParam("Type", "T")>>, <<>>,
                                        <<fooify>>)),
                  OtherItemOf("Struct")},
        feature \in BOOLEAN}

\* Then every trait body of up to MaxItems items under the options that
\* shape the table.
ItemInvocations ==
    {Invocation(attr, TraitItemOf(ItemTrait("Foo", params, <<>>, items)), feature) :
        attr \in {<<>>,
                  <<KeyValue("store_layout", Ident("true"))>>,
                  <<KeyGroup("inheritance",
                             <<<<Ident("extends"), Group(<<<<PathTok(BarPath)>>>>)>>>>)>>,
                  <<KeyValue("store_layout", Ident("true")),
                    KeyGroup("inheritance",
                             <<<<Ident("extends"), Group(<<<<PathTok(BarPath)>>>>)>>>>)>>},
        params \in {<<>>, <<GenericParam("Lifetime", "a")>>},
        items \in SeqUpTo(ItemChoices, MaxItems),
        feature \in BOOLEAN}

\* Then every supertrait list of up to MaxBounds bounds under the default
\* configuration and under each marker_traits(...) option.
MarkerInvocations ==
    {Invocation(attr, TraitItemOf(ItemTrait("Foo", <<>>, supertraits, <<fooify>>)), feature) :
        attr \in {<<>>} \cup {<<o>> : o \in MarkerOptionChoices},
        supertraits \in SeqUpTo(BoundChoices, MaxBounds),
        feature \in BOOLEAN}

\* The expansion of an attribute not yet expanded.
NotExpanded ==
    [item |-> OtherItemOf("none"), compile_errors |-> <<>>, output |-> Failure("not expanded")]

\* A crate holding the given use of the attribute, not yet expanded.
CrateWith(invocation) ==
    [src |-> invocation, art |-> NotExpanded, built |-> FALSE, layout |-> NoLayout]

\* A crate holding one use of the attribute, before the compiler reaches it.
ExpandInit ==
    /\ \/ \E i \in ConfigInvocations : crate = CrateWith(i)
       \/ \E i \in ItemInvocations : crate = CrateWith(i)
       \/ \E i \in MarkerInvocations : crate = CrateWith(i)
    /\ heap = <<>>
    /\ handles = <<>>
    /\ raws = {}
    /\ obs = Obs("none", 0, 0)
    /\ ub = "none"

\* The compiler expands the attribute: thin_trait_object on its tokens and
\* the tokens of the item.
Expand ==
    /\ crate.art = NotExpanded
    /\ crate' = [crate EXCEPT !.art =
                    thin_trait_object(crate.src.attr, crate.src.item, crate.src.feature)]
    /\ UNCHANGED <<heap, handles, raws, obs, ub>>

ExpandNext == Expand

ExpandSpec == ExpandInit /\ [][ExpandNext]_vars

\* The attribute of the crate has been expanded.
Expanded == crate.art # NotExpanded

(* ----------------------------- properties ------------------------------ *)

\* The handles that hold address p.
HandlesOn(p) == {h \in DOMAIN handles : handles[h].ptr = p}

\* The handles on p that from_raw built.
Rebuilt(p) == {h \in HandlesOn(p) : handles[h].via = "from_raw"}

\* C1: for a handle created by new, into_raw, then from_raw on the address
\* returned, then the teardown of the rebuilt handle (as from_raw returned
\* it, not cast to a super trait's handle) destroys the wrapped value and
\* frees its allocation, running the destructor exactly once.
RoundTripDestroysOnce ==
    \A p \in DOMAIN heap : \A h, g \in HandlesOn(p) :
        (/\ handles[h].via = "new" /\ handles[h].released
         /\ Rebuilt(p) = {g} /\ handles[g].st = "dropped" /\ ~handles[g].cast)
        => /\ heap[p].st = "freed"
           /\ heap[p].drop_runs = 1
           /\ handles[g].drops = 1 /\ handles[g].arg = p

\* C1 happens: a round trip whose teardown freed the allocation.
RoundTripDone ==
    /\ ub = "none"
    /\ \E p \in DOMAIN heap : \E h, g \in HandlesOn(p) :
        /\ handles[h].via = "new" /\ handles[h].released /\ handles[h].st = "forgotten"
        /\ Rebuilt(p) = {g} /\ handles[g].st = "dropped" /\ ~handles[g].cast
        /\ heap[p].st = "freed" /\ heap[p].drop_runs = 1

\* C2: in the programs of new, method calls, as_raw, moves and teardown, a
\* handle's teardown calls invoke_drop exactly once, with the handle's
\* address; no allocation's destructor runs twice; and no handle that can
\* still be used or torn down holds a destroyed allocation, so that nothing
\* is dispatched on one or read from one.
SafeTeardownOnce ==
    /\ \A h \in DOMAIN handles :
        handles[h].st = "dropped" => handles[h].drops = 1 /\ handles[h].arg = handles[h].ptr
    /\ \A p \in DOMAIN heap : heap[p].drop_runs <= 1
    /\ \A h \in DOMAIN handles : Live(h) => heap[handles[h].ptr].drop_runs = 0
    /\ ub # "use_after_free"
    /\ obs.op = "call" => heap[obs.ptr].drop_runs = 0

\* C2 happens: a handle was used, moved and torn down, and its allocation freed.
SafeTeardownDone ==
    /\ obs.op = "drop" /\ ub = "none"
    /\ handles[obs.h].st = "dropped" /\ handles[obs.h].drops = 1
    /\ heap[obs.ptr].st = "freed" /\ obs.ptr \in raws

\* C3: as_raw returns the address the handle stores and changes neither the
\* handle nor any other handle nor the heap; and a handle made by new that
\* alone holds its address runs the destructor exactly once when torn down,
\* as_raw having been called on it or not.
AsRawStep ==
    obs'.op = "as_raw" =>
        /\ obs'.ptr = handles[obs'.h].ptr
        /\ Live(obs'.h)
        /\ handles' = handles /\ heap' = heap /\ ub' = ub /\ crate' = crate
        /\ raws' = raws \cup {obs'.ptr}

AsRawKeepsOwnership ==
    /\ [][AsRawStep]_vars
    /\ [](\A p \in DOMAIN heap : \A h \in DOMAIN handles :
            (/\ HandlesOn(p) = {h} /\ p \in raws /\ ~handles[h].released
             /\ ~handles[h].cast /\ handles[h].st = "dropped")
            => heap[p].drop_runs = 1 /\ handles[h].drops = 1)

\* C3 happens: as_raw was called on a handle that was then torn down.
AsRawThenDropped ==
    \E p \in DOMAIN heap : \E h \in DOMAIN handles :
        /\ HandlesOn(p) = {h} /\ p \in raws /\ ~handles[h].released
        /\ handles[h].st = "dropped" /\ heap[p].drop_runs = 1 /\ ub = "none"

\* C4: into_raw returns the address as_raw returns; the handle it consumed
\* is never torn down; and once the handle new returned has been consumed,
\* the destructor of the allocation has not run unless a handle rebuilt
\* from the address by from_raw was torn down.
IntoRawReleases ==
    /\ obs.op = "into_raw" => obs.ptr = as_raw(handles[obs.h])
    /\ \A h \in DOMAIN handles :
        handles[h].released => handles[h].st = "forgotten" /\ handles[h].drops = 0
    /\ \A p \in DOMAIN heap :
        (/\ \E h \in HandlesOn(p) : handles[h].released /\ handles[h].via = "new"
         /\ \A g \in Rebuilt(p) : handles[g].st # "dropped")
        => heap[p].drop_runs = 0 /\ heap[p].st = "live"

\* C4 happens: into_raw consumed a handle, and a handle rebuilt from the
\* address is still alive.
IntoRawReleased ==
    \E p \in DOMAIN heap : \E h, g \in HandlesOn(p) :
        /\ handles[h].released /\ handles[h].via = "new"
        /\ handles[g].via = "from_raw" /\ Live(g)
        /\ heap[p].drop_runs = 0

\* C5: when from_raw rebuilds a handle from an address as_raw returned while
\* the handle new returned is still alive, tearing both down leaves defined
\* behaviour, the second teardown reading an allocation already destroyed,
\* and its destructor may run a second time; when the handle new returned
\* is forgotten instead, the destructor runs exactly once.
AliasedTeardown ==
    \A p \in DOMAIN heap : \A h, g \in HandlesOn(p) :
        (handles[h].via = "new" /\ Rebuilt(p) = {g} /\ ~handles[h].cast /\ ~handles[g].cast)
        => /\ (handles[g].aliased /\ handles[h].st = "dropped" /\ handles[g].st = "dropped")
              => /\ ub = "use_after_free"
                 /\ heap[p].st = "freed"
                 /\ heap[p].drop_runs \in {1, 2}
                 /\ heap[p].drop_runs = handles[h].drops + handles[g].drops
           /\ (/\ handles[h].st = "forgotten" /\ ~handles[h].released
               /\ handles[g].st = "dropped")
              => heap[p].drop_runs = 1 /\ handles[g].drops = 1

\* C5 happens: both handles were torn down and the destructor ran twice.
DestructorRanTwice ==
    \E p \in DOMAIN heap : \E h, g \in HandlesOn(p) :
        /\ handles[h].via = "new" /\ handles[g].via = "from_raw" /\ handles[g].aliased
        /\ handles[h].st = "dropped" /\ handles[g].st = "dropped"
        /\ heap[p].drop_runs = 2 /\ ub = "use_after_free"

\* C6: a call of method m of the handle's own trait on a handle of a live
\* allocation stays in defined behaviour; it calls the slot named m of the
\* table constant of the wrapped value's type, with the handle's raw pointer
\* as receiver; the implementation of m of that type is called on the
\* wrapped value with the arguments given, in order; and the call returns
\* what that implementation returns.
CallForwards ==
    (/\ obs.op = "call" /\ obs.tr = handles[obs.h].tr /\ ~handles[obs.h].cast
     /\ heap[obs.ptr].st = "live")
    => /\ ub = "none"
       /\ obs.recv = as_raw(handles[obs.h])
       /\ obs.fn = VtableWords(obs.tr, heap[obs.ptr].ty)[FieldOffset(obs.tr, obs.m) + 1]
       /\ obs.callee = obs.m
       /\ obs.ty = heap[obs.ptr].ty
       /\ obs.self = obs.ptr
       /\ obs.args = obs.given
       /\ obs.ret = Result(obs.m, heap[obs.ptr].ty, obs.ptr, obs.given)

\* C6 happens: a method with an unnamed parameter was called with the
\* largest argument value on a handle new returned.
CallForwarded ==
    /\ obs.op = "call" /\ obs.tr = handles[obs.h].tr /\ handles[obs.h].via = "new"
    /\ obs.m = "poke" /\ obs.given = <<MaxArgVal>> /\ obs.args = <<MaxArgVal>>
    /\ obs.self = obs.ptr /\ ub = "none"

\* The methods of trait t, when its expansion succeeded.
Items(t) == Art(t).stash.vtable_items

\* The initialiser of field `name` in the table constant of trait t.
InitOf(t, name) == CHOOSE e \in Range(Art(t).repr.vtable_init) : e.name = name

RECURSIVE RootOf(_)
\* The root of the extension chain of trait t.
RootOf(t) ==
    IF Art(t).stash.super_trait = NoName THEN t ELSE RootOf(Art(t).stash.super_trait)

RECURSIVE DepthOf(_)
\* The number of super traits above trait t.
DepthOf(t) ==
    IF Art(t).stash.super_trait = NoName THEN 0 ELSE 1 + DepthOf(Art(t).stash.super_trait)

HasField(t, name) == \E f \in Range(Art(t).vtable.fields) : f.name = name

\* C8: the table struct of a trait declares a destructor field, and its
\* constant initialises one, exactly when the trait has no super trait, and
\* its invoke_drop then calls that field and otherwise forwards to the
\* embedded super-table; and a teardown's invoke_drop call goes through one
\* table per level and calls the destructor of the root's representation
\* struct, once, with the address it was given.
DropOnlyAtRoot ==
    /\ \A t \in TraitNames : Art(t).ok =>
        /\ HasField(t, "drop") <=> Art(t).stash.super_trait = NoName
        /\ HasField(t, "super_trait_vtable") <=> Art(t).stash.super_trait # NoName
        /\ (\E e \in Range(Art(t).repr.vtable_init) : e.kind = "repr_drop")
                <=> Art(t).stash.super_trait = NoName
        /\ Art(t).vtable.drop_impl =
                IF Art(t).stash.super_trait = NoName THEN "drop"
                ELSE "super_trait_vtable.invoke_drop"
    /\ (obs.op = "drop" /\ handles[obs.h].drops > 0 /\ ub # "use_after_free")
        => /\ obs.fn = DropWord(Art(RootOf(handles[obs.h].tr)).repr.name, heap[obs.ptr].ty)
           /\ obs.hops = DepthOf(handles[obs.h].tr)
           /\ obs.recv = obs.ptr
           /\ handles[obs.h].drops = 1
           /\ heap[obs.ptr].drop_runs = 1

\* C8 happens: the teardown of a handle of a trait with a super trait went
\* through the super-table to the root's destructor.
DropForwardedToRoot ==
    /\ obs.op = "drop" /\ ub = "none"
    /\ Art(handles[obs.h].tr).stash.super_trait # NoName
    /\ obs.hops = 1 /\ obs.fn.k = "dropfn" /\ obs.recv = obs.ptr
    /\ heap[obs.ptr].st = "freed"

\* C9 as stated: for every setting of inline_vtable and store_layout on the
\* two traits, a handle cast to the super trait's handle type reads Sub's
\* embedded super-table as its table, a super trait method called through
\* the borrowed cast stays in defined behaviour and acts on the wrapped value
\* with the arguments given, and the teardown of the consumed cast's handle
\* destroys the value and frees the allocation, once.
CastsAreValid ==
    /\ (obs.op = "as_super_call" /\ heap[obs.ptr].st = "live")
        => /\ ub = "none"
           /\ obs.self = obs.ptr /\ obs.ty = heap[obs.ptr].ty
           /\ obs.callee = obs.m /\ obs.args = obs.given
    /\ \A h \in DOMAIN handles :
        (Live(h) /\ handles[h].cast /\ heap[handles[h].ptr].st = "live")
        => vtable(handles[h]) =
                super_trait_vtable(VtableWords(heap[handles[h].ptr].tr, heap[handles[h].ptr].ty),
                                   heap[handles[h].ptr].tr)
    /\ \A h \in DOMAIN handles :
        (handles[h].cast /\ handles[h].st = "dropped" /\ HandlesOn(handles[h].ptr) = {h})
        => /\ ub = "none"
           /\ heap[handles[h].ptr].st = "freed"
           /\ heap[handles[h].ptr].drop_runs = 1

\* C9 happens where the representation structs of the two traits agree: a
\* handle cast by into_<super> was torn down and the allocation freed.
CastTornDown ==
    \E h \in DOMAIN handles :
        /\ handles[h].cast /\ handles[h].st = "dropped" /\ HandlesOn(handles[h].ptr) = {h}
        /\ ub = "none" /\ heap[handles[h].ptr].st = "freed"

\* C10: the first field of the representation struct is the table, by value
\* when inline_vtable is set and as a reference to the static constant
\* otherwise, the constructor fills it accordingly and vtable() casts the
\* stored pointer accordingly; and vtable() on a handle of its own trait and
\* a live allocation is the table constant of the wrapped value's type.
TableFirst ==
    /\ \A t \in TraitNames : Art(t).ok =>
        /\ Art(t).repr.fields[1].name = "__thintraitobjectmacro_repr_vtable"
        /\ Art(t).repr.fields[1].ty =
                IF crate.src.cfg[t].inline_vtable THEN "value" ELSE "static_ref"
        /\ Art(t).repr.ctor_val = IF crate.src.cfg[t].inline_vtable THEN "copy" ELSE "borrow"
        /\ Art(t).trait_object.vtable_pointer_cast =
                IF crate.src.cfg[t].inline_vtable THEN "as *mut" ELSE "as *mut &'static"
    /\ \A h \in DOMAIN handles :
        (Live(h) /\ ~handles[h].cast /\ heap[handles[h].ptr].st = "live")
        => /\ vtable(handles[h]) = VtableWords(handles[h].tr, heap[handles[h].ptr].ty)
           /\ HeapWords(handles[h].ptr)[1] =
                IF crate.src.cfg[handles[h].tr].inline_vtable
                THEN VtableWords(handles[h].tr, heap[handles[h].ptr].ty)[1]
                ELSE RefWord(Art(handles[h].tr).repr.name, heap[handles[h].ptr].ty)

\* C10 happens: a handle new returned, of a trait with an inline table,
\* wrapping a String, and vtable() on it is the constant for String.
InlineTableRead ==
    \E h \in DOMAIN handles :
        /\ Live(h) /\ handles[h].via = "new"
        /\ crate.src.cfg[handles[h].tr].inline_vtable
        /\ heap[handles[h].ptr].ty = "String"
        /\ vtable(handles[h]) = VtableWords(handles[h].tr, "String")

(* ---------------- properties of the expansion of one use --------------- *)

\* The use of the attribute in the crate, and what it expanded to.
Src == crate.src

Out == crate.art.output

\* The options the attribute spells, when they parse.
OptionsOf(attr) ==
    parse_terminated(attr, [i \in DOMAIN attr |-> AttrOption_parse(attr[i])])

\* The configuration the attribute spells, when its options parse.
ConfigOf(attr) == Config_from(OptionsOf(attr).val)

\* The attribute was expanded and generation succeeded.
Generated == Expanded /\ Out.ok

\* The generated artifacts: the table, the representation, the handle and
\* the inheritance glue.
ArtifactNames == {"vtable", "repr", "trait_object", "possible_super_trait", "extends_impl"}

\* The expansion holds none of the generated artifacts.
EmitsNothing == DOMAIN Out \cap ArtifactNames = {}

\* The expansion failed: one diagnostic, and no artifact.
Failed == ~Out.ok /\ Len(crate.art.compile_errors) = 1 /\ EmitsNothing

\* C11: the fields of the generated table struct are, in this order, the
\* embedded super-table (iff the configuration names a super trait), size and
\* align (iff store_layout = true), one function pointer per method of the
\* trait in declaration order and named after it, and drop (iff no super
\* trait is named).
TableFieldOrder ==
    Generated =>
        LET config == ConfigOf(Src.attr)
            items == Src.item.def.items
            fields == Out.vtable.fields
            extends == config.has_inheritance /\ config.inheritance.extends # NoName
            a == IF extends THEN 1 ELSE 0
            b == IF config.store_layout THEN 2 ELSE 0
            n == Len(items)
        IN /\ Len(fields) = a + b + n + (IF extends THEN 0 ELSE 1)
           /\ extends => /\ fields[1].name = "super_trait_vtable"
                         /\ fields[1].kind = "table"
           /\ config.store_layout =>
                /\ fields[a + 1].name = "size" /\ fields[a + 1].kind = "usize"
                /\ fields[a + 2].name = "align" /\ fields[a + 2].kind = "usize"
           /\ \A i \in 1..n :
                /\ fields[a + b + i].name = items[i].sig.ident
                /\ fields[a + b + i].kind = "fn"
           /\ ~extends => /\ fields[Len(fields)].name = "drop"
                          /\ fields[Len(fields)].kind = "dropfn"

\* A table with a super-table, the layout fields and two methods was generated.
FullTableGenerated ==
    /\ Generated
    /\ Len(Out.vtable.fields) = 5
    /\ Out.vtable.fields[1].kind = "table"
    /\ Out.vtable.fields[2].kind = "usize"
    /\ Out.vtable.fields[4].name # Out.vtable.fields[5].name

\* The parameter types of the inputs explored that are references.
ReferenceTypes == {"&str", "&'a str", "&Self"}

\* A parameter is the method's receiver: `self` in one of its forms.
IsSelfParam(arg) == arg.kind = "Receiver" \/ (arg.kind = "Typed" /\ arg.pat = "self")

\* A receiver taken by value: `self`, or `self: T` with T no reference.
ByValueReceiver(arg) ==
    \/ arg.kind = "Receiver" /\ ~arg.reference
    \/ arg.kind = "Typed" /\ arg.pat = "self" /\ arg.ty \notin ReferenceTypes

\* An item of a trait body that the macro does not support: no method, or a
\* method without a receiver, with a by-value receiver, async, with a type
\* or const parameter, or with a where clause.
UnsupportedItem(item) ==
    \/ item.kind # "Method"
    \/ /\ item.kind = "Method"
       /\ \/ item.sig.inputs = <<>>
          \/ ~IsSelfParam(item.sig.inputs[1])
          \/ ByValueReceiver(item.sig.inputs[1])
          \/ item.sig.asyncness
          \/ \E i \in DOMAIN item.sig.generics.params :
                item.sig.generics.params[i].kind \in {"Type", "Const"}
          \/ item.sig.generics.where_clause

\* The attribute is on a trait that has generic parameters or an item the
\* macro does not support.
UnsupportedTrait ==
    /\ Src.item.kind = "Trait"
    /\ \/ Src.item.def.params # <<>>
       \/ \E i \in DOMAIN Src.item.def.items : UnsupportedItem(Src.item.def.items[i])

\* C12: the expansion fails, with none of the generated artifacts, whenever
\* the trait has generic parameters or holds an associated constant, an
\* associated type, a macro invocation, an item of an unknown kind, or a
\* method without a receiver, with a by-value receiver, async, with a type
\* or const parameter, or with a where clause.
UnsupportedTraitRejected == (Expanded /\ UnsupportedTrait) => Failed

\* A trait whose one item is `fn get(self) -> i32`, `const N: i32;` or
\* `fn f<U>(&self, x: U)` was rejected.
ExampleRejected ==
    /\ Expanded
    /\ Src.attr = <<>>
    /\ Src.item.kind = "Trait"
    /\ Len(Src.item.def.items) = 1
    /\ \/ Src.item.def.items[1].kind = "Const"
       \/ /\ Src.item.def.items[1].kind = "Method"
          /\ Src.item.def.items[1].sig.ident \in {"get", "f"}
    /\ Failed

\* A method descriptor (VtableItem) is well formed: one receiver parameter,
\* the first, by reference, and no parameter named self beside it.
WellFormedDescriptor(item) ==
    /\ item.inputs # <<>>
    /\ item.inputs[1].kind = "Receiver"
    /\ item.inputs[1].ty \in {"&self", "&mut self"}
    /\ \A i \in DOMAIN item.inputs :
            i > 1 => item.inputs[i].kind = "Normal" /\ item.inputs[i].name # "self"

\* C13: every method descriptor of a successful normalization has exactly
\* one receiver parameter, its first, by reference, with no typed self kept
\* as an ordinary parameter; the method it was made of has only lifetime
\* parameters, which the descriptor keeps, and no where clause.
DescriptorsWellFormed ==
    Generated =>
        \A i \in DOMAIN Out.stash.vtable_items :
            LET item == Out.stash.vtable_items[i]
                generics == Src.item.def.items[i].sig.generics
            IN /\ WellFormedDescriptor(item)
               /\ ~generics.where_clause
               /\ \A k \in DOMAIN generics.params : generics.params[k].kind = "Lifetime"
               /\ item.lifetimes = [k \in DOMAIN generics.params |-> generics.params[k].name]

\* A method with a lifetime parameter and a method with a &mut self receiver
\* were normalized into well-formed descriptors.
DescriptorsMade ==
    /\ Generated
    /\ Len(Out.stash.vtable_items) = 2
    /\ Out.stash.vtable_items[1].lifetimes # <<>>
    /\ Out.stash.vtable_items[2].inputs[1].ty = "&mut self"
    /\ \A i \in 1..2 : WellFormedDescriptor(Out.stash.vtable_items[i])

\* The least element of a non-empty set of numbers.
Least(S) == CHOOSE i \in S : \A j \in S : i <= j

\* The errors an input holds, stage by stage in the order of attribute_main:
\* for each stage whether its error is present in the input, and the error.
\* A stage that needs the configuration or the trait is looked at only when
\* those parse.
StageErrors ==
    LET options == OptionsOf(Src.attr)
        config == ConfigOf(Src.attr)
        is_trait == Src.item.kind = "Trait"
        trait_def == Src.item.def
        bad_options == {i \in DOMAIN Src.attr : ~AttrOption_parse(Src.attr[i]).ok
                            \/ AttrOption_parse(Src.attr[i]).used < Len(Src.attr[i])}
        bad_items == IF is_trait
                     THEN {i \in DOMAIN trait_def.items :
                            ~VtableItem_try_from(trait_def.items[i]).ok}
                     ELSE {}
        custom_name == is_trait /\ config.vtable_name \notin {NoName, trait_def.ident \o "Vtable"}
        bad_attributes == {i \in DOMAIN config.trait_object_attributes :
                            config.trait_object_attributes[i].path[1] \in {"derive", "repr"}}
    IN <<\* configuration parsing
         [present |-> bad_options # {}, err |-> options.err],
         \* interface parsing
         [present |-> ~is_trait, err |-> "expected trait"],
         \* generic-interface check
         [present |-> IF is_trait THEN trait_def.params # <<>> ELSE FALSE,
          err |-> "generic traits are not yet supported by thin_trait_object"],
         \* item normalization, in declaration order
         [present |-> bad_items # {},
          err |-> IF bad_items # {}
                  THEN VtableItem_try_from(trait_def.items[Least(bad_items)]).err
                  ELSE NoName],
         \* inheritance feature gate
         [present |-> options.ok /\ config.has_inheritance /\ ~Src.feature,
          err |-> "InheritanceNotEnabled"],
         \* custom-table-name check
         [present |-> /\ options.ok
                      /\ config.has_inheritance
                      /\ config.inheritance.possible_super_trait
                      /\ custom_name,
          err |-> "CustomVtableNameUnsupported"],
         \* handle decoration check
         [present |-> options.ok /\ bad_attributes # {},
          err |-> IF bad_attributes # {}
                  THEN check_attribute(
                          config.trait_object_attributes[Least(bad_attributes)]).err
                  ELSE NoName]>>

\* The stages whose error the input holds.
StagesInError == {k \in DOMAIN StageErrors : StageErrors[k].present}

\* C14: an input that holds an error in some stage fails with exactly one
\* diagnostic and none of the generated artifacts, and the diagnostic is
\* that of the first stage in error, in the order configuration parsing,
\* interface parsing, generic-interface check, item normalization in
\* declaration order, feature gate, custom-table-name check, handle
\* decoration check; an input that holds none generates.
FirstErrorWins ==
    Expanded =>
        IF StagesInError = {} THEN Out.ok
        ELSE /\ Failed
             /\ crate.art.compile_errors = <<StageErrors[Least(StagesInError)].err>>
             /\ crate.art.item = Src.item

\* An input with errors in three stages failed with the error of the first.
SeveralErrorsOneReported ==
    /\ Expanded
    /\ Cardinality(StagesInError) >= 3
    /\ Least(StagesInError) > 1
    /\ Failed
    /\ crate.art.compile_errors = <<StageErrors[Least(StagesInError)].err>>

\* What rustc makes of one attribute on an emitted item: a cfg_attr whose
\* predicate holds (`all()`) stands for the attributes it lists, a cfg_attr
\* whose predicate does not hold for none, any other attribute for itself.
cfg_attr_expand(attribute) ==
    IF attribute.path # <<"cfg_attr">> THEN <<attribute>>
    ELSE IF attribute.tokens[1] # Ident("all") THEN <<>>
    ELSE [i \in 1..(Len(attribute.tokens) - 1) |-> attribute.tokens[i + 1].attribute]

\* The attributes in effect on an item that carries the given ones.
EffectiveAttributes(attributes) ==
    Concat([i \in DOMAIN attributes |-> cfg_attr_expand(attributes[i])])

\* The attributes in effect on the generated handle struct: those passed in
\* trait_object(...), then the repr the macro writes.
HandleAttributes ==
    EffectiveAttributes(Out.trait_object.attributes)
        \o <<Attribute(<<"repr">>, <<Ident(Out.trait_object.repr)>>)>>

\* The attributes of a list that are derive or repr attributes.
DeriveOrRepr(attributes) ==
    {i \in DOMAIN attributes : attributes[i].path[1] \in {"derive", "repr"}}

\* C15: when an attribute given in trait_object(...) is a derive or a repr
\* attribute, in whatever form it is attached, generation fails with no
\* artifacts; so the attributes in effect on a generated handle are one
\* repr, repr(transparent), and no derive.
HandleDecorationsChecked ==
    Expanded =>
        /\ (/\ OptionsOf(Src.attr).ok
            /\ DeriveOrRepr(EffectiveAttributes(
                    ConfigOf(Src.attr).trait_object_attributes)) # {})
                => Failed
        /\ Out.ok =>
                \A i \in DOMAIN HandleAttributes :
                    /\ HandleAttributes[i].path[1] # "derive"
                    /\ HandleAttributes[i].path[1] = "repr" =>
                            HandleAttributes[i].tokens = <<Ident("transparent")>>

\* A derive or repr attribute written directly in trait_object(...), on an
\* input without another error, was rejected.
DecorationRejected ==
    /\ Expanded
    /\ StagesInError = {7}
    /\ Failed

\* The configuration makes the trait a possible super trait.
PossibleSuperTrait ==
    /\ OptionsOf(Src.attr).ok
    /\ ConfigOf(Src.attr).has_inheritance
    /\ ConfigOf(Src.attr).inheritance.possible_super_trait

\* The expansion failed with the custom-vtable-name error.
CustomNameError == Expanded /\ crate.art.compile_errors = <<"CustomVtableNameUnsupported">>

\* C16 as stated: with possible_super_trait = true and a vtable(...) option
\* in the configuration, generation (when it gets as far as the check) fails
\* with the custom-vtable-name error and no artifacts; without a vtable(...)
\* option the check never fails.
VtableOptionRejected ==
    Expanded =>
        /\ (/\ PossibleSuperTrait
            /\ ConfigOf(Src.attr).vtable_name # NoName
            /\ StagesInError \cap 1..5 = {})
                => (Failed /\ CustomNameError)
        /\ (OptionsOf(Src.attr).ok /\ ConfigOf(Src.attr).vtable_name = NoName)
                => ~CustomNameError

\* C16, amended: on an input that passes the stages before the check
\* (parsing, generics, items, feature gate), generation fails with the
\* custom-vtable-name error and no artifacts if and only if
\* possible_super_trait = true and the vtable(...) option gives the table a
\* name other than <Trait>Vtable; the error is reported for no other input.
CustomNameRejected ==
    Expanded =>
        LET renamed ==
                /\ PossibleSuperTrait
                /\ Src.item.kind = "Trait"
                /\ ConfigOf(Src.attr).vtable_name # NoName
                /\ ConfigOf(Src.attr).vtable_name # Src.item.def.ident \o "Vtable"
        IN /\ (renamed /\ StagesInError \cap 1..5 = {}) => (Failed /\ CustomNameError)
           /\ CustomNameError => renamed

\* A possible super trait whose table was renamed was rejected.
RenamedTableRejected ==
    /\ PossibleSuperTrait
    /\ ConfigOf(Src.attr).vtable_name = "MyVtable"
    /\ CustomNameError
    /\ Failed

\* The attribute holds an inheritance(...) option.
HasInheritanceOption ==
    \E i \in DOMAIN Src.attr : Src.attr[i] # <<>> /\ Src.attr[i][1] = Ident("inheritance")

\* C17: with an inheritance(...) option in the attribute and the
\* experimental-inheritance feature off, the expansion fails with no
\* artifacts, whatever the option holds, and the error is the
\* inheritance-not-enabled one unless an earlier stage (parsing, generics,
\* items) reports its own; without an inheritance(...) option the expansion
\* is the same with the feature on and off.
InheritanceGated ==
    Expanded =>
        /\ (HasInheritanceOption /\ ~Src.feature) =>
                /\ Failed
                /\ StagesInError \cap 1..4 = {} =>
                        crate.art.compile_errors = <<"InheritanceNotEnabled">>
        /\ ~HasInheritanceOption =>
                crate.art = thin_trait_object(Src.attr, Src.item, ~Src.feature)

\* An inheritance(...) option without content was refused by a build
\* without the feature.
EmptyInheritanceRefused ==
    /\ Expanded
    /\ HasInheritanceOption
    /\ OptionsOf(Src.attr).ok
    /\ ConfigOf(Src.attr).inheritance = DefaultInheritanceConfig
    /\ ~Src.feature
    /\ crate.art.compile_errors = <<"InheritanceNotEnabled">>
    /\ EmitsNothing

\* The keys of the options the macro knows.
KnownKeys ==
    {"vtable", "trait_object", "inline_vtable", "drop_abi", "marker_traits", "store_layout",
     "inheritance"}

\* An option written `key = value` with a value that is no boolean literal.
NonBooleanValue(tokens, keys) ==
    /\ Len(tokens) >= 3
    /\ tokens[1].t = "Ident" /\ tokens[1].text \in keys
    /\ tokens[2] = Punct("=")
    /\ tokens[3] \notin {Ident("true"), Ident("false")}

\* An option whose key the macro does not know.
UnknownKey(tokens) ==
    tokens # <<>> /\ tokens[1].t = "Ident" /\ tokens[1].text \notin KnownKeys

\* An inheritance(...) option that holds a possible_super_trait option with
\* a value that is no boolean literal.
NonBooleanInside(tokens) ==
    /\ Len(tokens) >= 2
    /\ tokens[1] = Ident("inheritance")
    /\ tokens[2].t = "Group"
    /\ \E k \in DOMAIN tokens[2].parts :
            NonBooleanValue(tokens[2].parts[k], {"possible_super_trait"})

\* C18: the expansion fails in configuration parsing, with no artifacts,
\* when an option of the attribute has a key other than vtable,
\* trait_object, inline_vtable, drop_abi, marker_traits, store_layout,
\* inheritance, or is an inline_vtable, store_layout or possible_super_trait
\* option whose value is no boolean literal.
MalformedOptionsRejected ==
    (/\ Expanded
     /\ \E i \in DOMAIN Src.attr :
            \/ UnknownKey(Src.attr[i])
            \/ NonBooleanValue(Src.attr[i], {"inline_vtable", "store_layout"})
            \/ NonBooleanInside(Src.attr[i]))
        => /\ Failed
           /\ ~OptionsOf(Src.attr).ok
           /\ crate.art.compile_errors = <<OptionsOf(Src.attr).err>>

\* `inline_vtable = maybe` was rejected as no boolean literal.
MaybeRejected ==
    /\ Expanded
    /\ Src.attr = <<KeyValue("inline_vtable", Ident("maybe"))>>
    /\ Src.item.kind = "Trait"
    /\ crate.art.compile_errors = <<"expected boolean literal">>
    /\ EmitsNothing

\* The capability traits the macro knows by default, with whether their
\* implementation is unsafe.
UnsafeCapabilities == {"Send", "Sync"}

SafeCapabilities == {"Unpin", "UnwindSafe", "RefUnwindSafe"}

\* The paths the default predicate recognizes: a capability's short name,
\* or its fully-qualified path, written with the leading colons.
DefaultPaths ==
    {Path(FALSE, <<n>>) : n \in UnsafeCapabilities \cup SafeCapabilities}
    \cup {Path(TRUE, <<"core", "marker", n>>) : n \in {"Send", "Sync", "Unpin"}}
    \cup {Path(TRUE, <<"std", "panic", n>>) : n \in {"UnwindSafe", "RefUnwindSafe"}}

\* The marker implementations on the handle are those expected of the
\* supertrait list: one empty implementation for each bound whose path is
\* among the marker paths, in source order, for the handle type, and unsafe
\* exactly when the path is among the unsafe ones.
MarkersAre(marker_paths, unsafe_paths) ==
    LET supertraits == Src.item.def.supertraits
        impls == Out.trait_object.marker_impls
        accepted == Positions([i \in DOMAIN supertraits |->
                        supertraits[i].kind = "Trait" /\ supertraits[i].path \in marker_paths])
    IN /\ Len(impls) = Len(accepted)
       /\ \A k \in DOMAIN impls :
            /\ impls[k].trait = supertraits[accepted[k]].path
            /\ impls[k].unsafety = (supertraits[accepted[k]].path \in unsafe_paths)
            /\ impls[k].for = Out.trait_object.name
            /\ impls[k].body = <<>>

\* C19: with the default configuration, the marker implementations on the
\* handle are one empty implementation per supertrait bound the default
\* predicate recognizes, by short name or by fully-qualified path, in source
\* order, unsafe exactly for Send and Sync as in the table; none when no
\* bound is a capability trait.
DefaultMarkers ==
    (Generated /\ ~ConfigOf(Src.attr).has_marker_traits) =>
        MarkersAre(DefaultPaths,
                   {path \in DefaultPaths :
                        path.segments[Len(path.segments)] \in UnsafeCapabilities})

\* A trait with the one supertrait Send got one marker implementation, an
\* unsafe impl.
SendImplemented ==
    /\ Generated
    /\ Src.attr = <<>>
    /\ Src.item.def.supertraits = <<TraitBound(SendPath)>>
    /\ Len(Out.trait_object.marker_impls) = 1
    /\ Out.trait_object.marker_impls[1].unsafety
    /\ Out.trait_object.marker_impls[1].trait = SendPath

\* The markers a marker_traits(...) option lists, as written.
ListedMarkers ==
    LET i == CHOOSE i \in DOMAIN Src.attr :
                /\ Src.attr[i][1] = Ident("marker_traits")
                /\ \A j \in DOMAIN Src.attr :
                        Src.attr[j][1] = Ident("marker_traits") => j <= i
        parts == Src.attr[i][2].parts
    IN [k \in DOMAIN parts |->
            [unsafe |-> parts[k][1] = Ident("unsafe"),
             path |-> parts[k][Len(parts[k])].path]]

\* C20: with a marker_traits(...) option, a supertrait bound gets a marker
\* implementation if and only if its path equals a path listed in the
\* option, unsafe if and only if the (first) entry with that path was
\* written with the unsafe keyword; default names that are not listed, and
\* every bound when the list is empty, get none, and generation succeeds.
ListedMarkersOnly ==
    (/\ Expanded
     /\ StagesInError = {}
     /\ ConfigOf(Src.attr).has_marker_traits) =>
        LET listed == {ListedMarkers[k].path : k \in DOMAIN ListedMarkers}
            first(path) == Least({k \in DOMAIN ListedMarkers : ListedMarkers[k].path = path})
        IN Out.ok /\ MarkersAre(listed, {path \in listed : ListedMarkers[first(path)].unsafe})

\* Under marker_traits(SafeMarker, unsafe Unpin) a trait with the supertraits
\* Send and Unpin got the one implementation of Unpin, an unsafe impl.
DefaultsReplaced ==
    /\ Generated
    /\ ConfigOf(Src.attr).has_marker_traits
    /\ Len(ListedMarkers) = 2
    /\ Src.item.def.supertraits = <<TraitBound(SendPath), TraitBound(UnpinPath)>>
    /\ Len(Out.trait_object.marker_impls) = 1
    /\ Out.trait_object.marker_impls[1].trait = UnpinPath
    /\ Out.trait_object.marker_impls[1].unsafety

\* The name a path ends with.
LastSegment(path) == path.segments[Len(path.segments)]

\* The marker implementations on the handle whose trait is the given path.
ImplsOf(path) ==
    {k \in DOMAIN Out.trait_object.marker_impls : Out.trait_object.marker_impls[k].trait = path}

\* With no marker_traits option, the traits named count as marker traits,
\* by short name or by the table's path, those of unsafe_names with an
\* unsafe impl and the others with a safe one, and no other bound gets a
\* marker implementation.
DefaultListIs(names, unsafe_names) ==
    (Generated /\ ~ConfigOf(Src.attr).has_marker_traits) =>
        /\ \A i \in DOMAIN Src.item.def.supertraits :
            LET bound == Src.item.def.supertraits[i]
            IN bound.kind = "Trait" =>
                /\ ImplsOf(bound.path) # {} <=>
                        (bound.path \in DefaultPaths /\ LastSegment(bound.path) \in names)
                /\ \A k \in ImplsOf(bound.path) :
                        Out.trait_object.marker_impls[k].unsafety
                            = (LastSegment(bound.path) \in unsafe_names)
        /\ \A k \in DOMAIN Out.trait_object.marker_impls :
                \E i \in DOMAIN Src.item.def.supertraits :
                    /\ Src.item.def.supertraits[i].kind = "Trait"
                    /\ Src.item.def.supertraits[i].path = Out.trait_object.marker_impls[k].trait

GivenName(key) ==
    LET with_key == {i \in DOMAIN Src.attr : Src.attr[i][1] = Ident(key)}
        last == CHOOSE i \in with_key : \A j \in with_key : j <= i
        tokens == Src.attr[last][2].parts[1]
    IN IF with_key = {} THEN NoName ELSE tokens[Len(tokens)].text

\* C22: the table type of trait T is named TVtable and the handle type
\* BoxedT, unless vtable(...) or trait_object(...) gives a name, which then
\* replaces the respective default; and a trait without generic parameters
\* whose items are all supported methods generates under the default
\* configuration.
DefaultNames ==
    /\ Generated =>
        /\ Out.vtable.name = IF GivenName("vtable") # NoName THEN GivenName("vtable")
                             ELSE Src.item.def.ident \o "Vtable"
        /\ Out.trait_object.name =
                IF GivenName("trait_object") # NoName THEN GivenName("trait_object")
                ELSE "Boxed" \o Src.item.def.ident
        /\ Out.trait_object.vtable_name = Out.vtable.name
    /\ (Expanded /\ Src.attr = <<>> /\ Src.item.kind = "Trait" /\ ~UnsupportedTrait) => Out.ok

\* The trait Bar under the default configuration got BarVtable and BoxedBar.
BarNamedByDefault ==
    /\ Generated
    /\ Src.attr = <<>>
    /\ Src.item.def.ident = "Bar"
    /\ Out.vtable.name = "BarVtable"
    /\ Out.trait_object.name = "BoxedBar"

\* The target of the trait implementation once the stages have run.
TargetMode == Out.stash.target_impl.kind

\* The handle has the inherent method vtable().
InherentVtableAccessor ==
    \E i \in DOMAIN Out.trait_object.inherent_impl :
        Out.trait_object.inherent_impl[i] = "vtable"

\* C23 as stated: the inherent vtable() accessor is on the handle only when
\* the implementation targets the handle itself.
AccessorOnlyForSpecificHandle ==
    Generated => (InherentVtableAccessor <=> TargetMode = "SpecificTraitObject")

\* C23: the handle has the inherent vtable() accessor whatever the target
\* of the implementation is, and its destructor goes through it; when the
\* target is the capability trait, that trait is declared with data_ptr and
\* vtable_<Trait>, and its impl for the handle returns the inherent
\* vtable(); when the target is the handle, no capability trait is emitted.
AccessorInBothModes ==
    Generated =>
        /\ InherentVtableAccessor
        /\ Out.trait_object.drop_body[1] = "vtable"
        /\ TargetMode = "BlanketTrait" =>
            /\ Out.possible_super_trait.present
            /\ Out.possible_super_trait.trait_decl.methods =
                    <<"data_ptr", "vtable_" \o Src.item.def.ident>>
            /\ Out.possible_super_trait.blanket_impl.for = Out.trait_object.name
            /\ Out.possible_super_trait.blanket_impl.vtable_body = "vtable"
            /\ \A i \in DOMAIN Out.trait_object.impl_thunks :
                    Out.trait_object.impl_thunks[i].vtable_method =
                        "vtable_" \o Src.item.def.ident
        /\ TargetMode = "SpecificTraitObject" =>
            /\ ~Out.possible_super_trait.present
            /\ \A i \in DOMAIN Out.trait_object.impl_thunks :
                    Out.trait_object.impl_thunks[i].vtable_method = "vtable"

\* A handle generated with the capability trait as target has the inherent
\* accessor.
AccessorBesideCapabilityTrait ==
    /\ Generated
    /\ TargetMode = "BlanketTrait"
    /\ InherentVtableAccessor
    /\ Out.possible_super_trait.blanket_impl.vtable_body = "vtable"

\* The names of the fields of trait t's table struct.
FieldNames(t) == {f.name : f \in Range(Art(t).vtable.fields)}

\* handle.vtable().name, for a field of one word.
ReadField(h, name) == vtable(handles[h])[FieldOffset(handles[h].tr, name) + 1]

\* The handles new made, as new returned them, over a live allocation.
MadeByNew == {h \in DOMAIN handles : /\ Live(h) /\ handles[h].via = "new"
                                     /\ ~handles[h].cast
                                     /\ heap[handles[h].ptr].st = "live"}

\* C24: the table struct of a trait has the fields size and align when its
\* attribute has store_layout = true and neither of them otherwise, and
\* then the table of every handle new(v) made holds the size and the
\* alignment of v's type in them.
LayoutStored ==
    /\ \A t \in TraitNames :
        Art(t).ok =>
            /\ crate.src.cfg[t].store_layout => {"size", "align"} \subseteq FieldNames(t)
            /\ ~crate.src.cfg[t].store_layout => {"size", "align"} \cap FieldNames(t) = {}
    /\ ~DefaultConfig.store_layout
    /\ Running =>
        \A h \in MadeByNew :
            crate.src.cfg[handles[h].tr].store_layout =>
                /\ vtable(handles[h]) # Garbage
                /\ ReadField(h, "size") = UsizeWord(size_of(heap[handles[h].ptr].ty))
                /\ ReadField(h, "align") = UsizeWord(align_of(heap[handles[h].ptr].ty))

\* new made a handle for a String under store_layout = true, and its table
\* says 24 and 8 (examples/size_and_align.rs).
StringLayoutStored ==
    /\ Running
    /\ \E h \in MadeByNew :
        /\ crate.src.cfg[handles[h].tr].store_layout
        /\ heap[handles[h].ptr].ty = "String"
        /\ ReadField(h, "size") = UsizeWord(24)
        /\ ReadField(h, "align") = UsizeWord(8)

\* The ABI written in the last drop_abi option of the attribute, NoName when
\* there is none.
GivenAbi ==
    LET with_key == {i \in DOMAIN Src.attr : Src.attr[i][1] = Ident("drop_abi")}
        last == CHOOSE i \in with_key : \A j \in with_key : j <= i
    IN IF with_key = {} THEN NoName ELSE Src.attr[last][3].text

\* The table field of item i of the trait, when one was generated.
MethodField(i) ==
    CHOOSE f \in Range(Out.vtable.fields) : f.name = Src.item.def.items[i].sig.ident

\* The type of a parameter of the function pointer is the method's, the
\* &self or &mut self receiver apart, which is a *mut c_void without a name.
SameParameter(arg, bare) ==
    IF arg.kind = "Receiver"
    THEN arg.reference /\ bare.ty = "*mut c_void" /\ bare.name = NoName
    ELSE bare.ty = arg.ty /\ bare.name = arg.pat

\* C25: each method of the trait has a field of its name in the table whose
\* type is an unsafe function pointer with the method's ABI, lifetime
\* parameters, variadic marker and return type, and the method's parameters
\* in order with the &self or &mut self receiver replaced by a *mut c_void;
\* the field drop, when present, is an unsafe function pointer of the ABI
\* drop_abi gives, taking a *mut c_void.
FunctionPointerSignatures ==
    Generated =>
        /\ \A i \in DOMAIN Src.item.def.items :
            LET sig == Src.item.def.items[i].sig
                ptr == MethodField(i).ptr
            IN /\ \E f \in Range(Out.vtable.fields) : f.name = sig.ident
               /\ MethodField(i).kind = "fn"
               /\ ptr.unsafety
               /\ ptr.abi = sig.abi
               /\ ptr.lifetimes = [k \in DOMAIN sig.generics.params |->
                                        sig.generics.params[k].name]
               /\ ptr.variadic = sig.variadic
               /\ ptr.output = sig.output
               /\ Len(ptr.inputs) = Len(sig.inputs)
               /\ \A k \in DOMAIN sig.inputs : SameParameter(sig.inputs[k], ptr.inputs[k])
        /\ \A f \in Range(Out.vtable.fields) :
            f.kind = "dropfn" =>
                /\ f.ptr.unsafety
                /\ f.ptr.abi = GivenAbi
                /\ [k \in DOMAIN f.ptr.inputs |-> f.ptr.inputs[k].ty] = <<"*mut c_void">>
                /\ ~f.ptr.variadic /\ f.ptr.output = NoName /\ f.ptr.lifetimes = <<>>

\* A table was generated for a safe method and for an unsafe extern "C"
\* method with a lifetime parameter and a return type, and its destructor
\* field has the ABI "C" of drop_abi = "C".
PointersOfTwoMethods ==
    /\ Generated
    /\ GivenAbi = "C"
    /\ \E f \in Range(Out.vtable.fields) : f.kind = "dropfn" /\ f.ptr.abi = "C"
    /\ Len(Src.item.def.items) = 2
    /\ Src.item.def.items[1].sig.unsafety /\ Src.item.def.items[1].sig.abi = "C"
    /\ ~Src.item.def.items[2].sig.unsafety
    /\ MethodField(1).ptr.inputs[1].ty = "*mut c_void"
    /\ MethodField(2).ptr.unsafety

\* The thunks generated for trait t.
Thunks(t) == Range(Art(t).repr.thunk_methods)

\* The thunk's body is a call of `method` on the value field of the
\* representation struct its first parameter points to, with its other
\* parameters as the arguments, in order: `.method(p1, p2, ..)`.
ForwardsItsParameters(th, repr_name) ==
    /\ th.repr = repr_name
    /\ th.signature.inputs[1] = nth_arg(0)
    /\ th.signature.ident = "__thintraitobjectmacro_thunk_" \o th.method
    /\ th.call_tokens = Punctuated(Tail(th.signature.inputs))

\* C26: every thunk generated for a method casts its pointer parameter to
\* the representation struct of its trait, and calls the method of the same
\* name on the wrapped value with exactly its other parameters, all of them
\* and in declaration order, whatever their number; and a call through the
\* handle reaches that method with the arguments given.
ThunksForwardArguments ==
    /\ \A t \in TraitNames :
        Art(t).ok =>
            /\ \A i \in DOMAIN Items(t) :
                \E th \in Thunks(t) :
                    /\ th.method = Items(t)[i].name
                    /\ Len(th.signature.inputs) = Len(Items(t)[i].inputs)
            /\ \A th \in Thunks(t) : ForwardsItsParameters(th, Art(t).repr.name)
    /\ (/\ obs.op = "call" /\ obs.tr = handles[obs.h].tr /\ ~handles[obs.h].cast
        /\ heap[obs.ptr].st = "live")
       => obs.callee = obs.m /\ obs.args = obs.given /\ obs.self = obs.ptr

\* The thunk of a method with one parameter besides the receiver ran: the
\* method fooify was called on the wrapped value with the argument given.
OneArgumentForwarded ==
    /\ obs.op = "call" /\ obs.tr = "Foo" /\ handles[obs.h].tr = "Foo"
    /\ ~handles[obs.h].cast /\ ub = "none"
    /\ obs.m = "fooify" /\ obs.callee = "fooify"
    /\ obs.args = obs.given /\ Len(obs.given) = 1
    /\ \A th \in Thunks("Foo") : ForwardsItsParameters(th, Art("Foo").repr.name)

(* ------------------ attribute_main, one stage at a time ---------------- *)

\* The stash before attribute_main has made it.
NoStash == <<>>

\* An artifact its generator has not produced yet.
NotGenerated == [ok |-> FALSE, err |-> "not generated"]

\* The locals of attribute_main on one invocation, before its first
\* statement: pc names the statement to run next.
Locals(invocation) ==
    [src |-> invocation, pc |-> "normalize", err |-> NoName,
     config |-> DefaultConfig, markers |-> <<>>, has_static_bound |-> FALSE,
     stash |-> NoStash,
     possible_super_trait |-> NoGlue, extends_impl |-> NoGlue,
     vtable |-> NotGenerated, repr |-> NotGenerated, trait_object |-> NotGenerated]

\* return Err(..): attribute_main is left with the error.
Return(err) == [crate EXCEPT !.pc = "failed", !.err = err]

\* A generator that erases the receivers of the stash's items and makes
\* them unsafe in place.
stash_made_raw(stash) ==
    [stash EXCEPT !.vtable_items =
        [i \in DOMAIN stash.vtable_items |-> make_unsafe(make_raw(stash.vtable_items[i]))]]

\* The stash generate_vtable leaves behind: it borrows the fields and hands
\* a clone of each item to VtableItemToFnPtr, which makes its own copy
\* unsafe and raw.
stash_after_generate_vtable(stash) == stash

\* The stash generate_repr leaves behind: generate_vtable_and_thunks gets
\* stash.vtable_items.iter().cloned() and transforms the copies.
stash_after_generate_repr(stash) == stash

\* The stash generate_trait_object leaves behind: the items are cloned into
\* VtableItemToImplThunk.
stash_after_generate_trait_object(stash) == stash

StageInit ==
    /\ \/ \E i \in ConfigInvocations : crate = Locals(i)
       \/ \E i \in ItemInvocations : crate = Locals(i)
    /\ heap = <<>>
    /\ handles = <<>>
    /\ raws = {}
    /\ obs = Obs("none", 0, 0)
    /\ ub = "none"

\* attribute_main up to `let mut stash = StageStash { .. }`: the options and
\* the trait are parsed, generic traits refused, the items normalized, the
\* supertraits split, the names chosen and the stash made.
Normalize ==
    /\ crate.pc = "normalize"
    /\ LET attr == crate.src.attr
           item == crate.src.item
           options ==
               parse_terminated(attr, [i \in DOMAIN attr |-> AttrOption_parse(attr[i])])
           config == Config_from(options.val)
           trait_def == item.def
           vtable_items ==
               collect([i \in DOMAIN trait_def.items |->
                            VtableItem_try_from(trait_def.items[i])])
           split ==
               supertraits_to_markers_and_lifetimes(trait_def.supertraits,
                   [i \in DOMAIN trait_def.supertraits |->
                       IF trait_def.supertraits[i].kind # "Trait" THEN NoMarker
                       ELSE IF config.has_marker_traits
                       THEN listed_marker_filter(config.marker_traits,
                                                 trait_def.supertraits[i])
                       ELSE default_marker_filter(trait_def.supertraits[i])])
           vtable_name ==
               IF config.vtable_name # NoName THEN config.vtable_name
               ELSE trait_def.ident \o "Vtable"
           trait_object_name ==
               IF config.trait_object_name # NoName THEN config.trait_object_name
               ELSE "Boxed" \o trait_def.ident
       IN crate' =
            IF ~options.ok THEN Return(options.err)
            ELSE IF item.kind # "Trait" THEN Return("expected trait")
            ELSE IF trait_def.params # <<>>
            THEN Return("generic traits are not yet supported by thin_trait_object")
            ELSE IF ~vtable_items.ok THEN Return(vtable_items.err)
            ELSE [crate EXCEPT
                    !.pc = "possible_super_trait",
                    !.config = config,
                    !.markers = split.markers,
                    !.has_static_bound =
                        \E i \in DOMAIN split.lifetimes : split.lifetimes[i] = "static",
                    !.stash =
                        [trait_name |-> trait_def.ident,
                         target_impl |-> SpecificTraitObject(trait_object_name),
                         super_trait |-> IF config.has_inheritance
                                         THEN config.inheritance.extends ELSE NoName,
                         vtable_name |-> vtable_name,
                         trait_object_name |-> trait_object_name,
                         repr_name |-> repr_name_from_trait_name(trait_def.ident),
                         vtable_items |-> vtable_items.val]]
    /\ UNCHANGED <<heap, handles, raws, obs, ub>>

\* match config.inheritance: the feature gate and handle_possible_super_trait
\* for Some, None for None.
ResolvePossibleSuperTrait ==
    /\ crate.pc = "possible_super_trait"
    /\ LET pst == handle_possible_super_trait(crate.stash, crate.config.inheritance)
       IN crate' =
            IF ~crate.config.has_inheritance
            THEN [crate EXCEPT !.pc = "extends", !.possible_super_trait = NoGlue]
            ELSE IF ~crate.src.feature THEN Return("InheritanceNotEnabled")
            ELSE IF ~pst.ok THEN Return(pst.err)
            ELSE [crate EXCEPT !.pc = "extends", !.stash = pst.stash,
                               !.possible_super_trait = pst.res]
    /\ UNCHANGED <<heap, handles, raws, obs, ub>>

\* extends_impl = handle_extends(&mut stash, inheritance)?, None without an
\* inheritance option.
ResolveExtends ==
    /\ crate.pc = "extends"
    /\ LET ext == handle_extends(crate.stash, crate.config.inheritance)
       IN crate' =
            IF ~crate.config.has_inheritance
            THEN [crate EXCEPT !.pc = "generate_vtable", !.extends_impl = NoGlue]
            ELSE IF ~ext.ok THEN Return(ext.err)
            ELSE [crate EXCEPT !.pc = "generate_vtable", !.extends_impl = ext.res]
    /\ UNCHANGED <<heap, handles, raws, obs, ub>>

\* let vtable = generate_vtable(&mut stash, ..)
GenerateVtable ==
    /\ crate.pc = "generate_vtable"
    /\ crate' = [crate EXCEPT
            !.pc = "generate_repr",
            !.vtable = generate_vtable(crate.stash, crate.config.drop_abi,
                                       crate.config.store_layout),
            !.stash = stash_after_generate_vtable(crate.stash)]
    /\ UNCHANGED <<heap, handles, raws, obs, ub>>

\* let repr = generate_repr(&mut stash, ..)
GenerateRepr ==
    /\ crate.pc = "generate_repr"
    /\ crate' = [crate EXCEPT
            !.pc = "generate_trait_object",
            !.repr = generate_repr(crate.stash, crate.config.inline_vtable,
                                   crate.config.store_layout),
            !.stash = stash_after_generate_repr(crate.stash)]
    /\ UNCHANGED <<heap, handles, raws, obs, ub>>

\* let trait_object = generate_trait_object(&mut stash, ..)?, and the output
\* put together.
GenerateTraitObject ==
    /\ crate.pc = "generate_trait_object"
    /\ LET trait_object ==
            generate_trait_object(crate.stash, crate.config.inline_vtable,
                                  crate.has_static_bound,
                                  crate.config.trait_object_attributes, crate.markers)
       IN crate' =
            IF ~trait_object.ok THEN Return(trait_object.err)
            ELSE [crate EXCEPT
                    !.pc = "done",
                    !.trait_object = trait_object,
                    !.stash = stash_after_generate_trait_object(crate.stash)]
    /\ UNCHANGED <<heap, handles, raws, obs, ub>>

StageNext ==
    \/ Normalize
    \/ ResolvePossibleSuperTrait
    \/ ResolveExtends
    \/ GenerateVtable
    \/ GenerateRepr
    \/ GenerateTraitObject

StageSpec == StageInit /\ [][StageNext]_vars

(* ---------------- properties of the stages of attribute_main ----------- *)

\* The stash exists: normalization is over and attribute_main went on.
AfterNormalization ==
    crate.pc \in {"possible_super_trait", "extends", "generate_vtable", "generate_repr",
                  "generate_trait_object", "done"}

\* handle_possible_super_trait has run and attribute_main went on.
AfterResolver ==
    crate.pc \in {"extends", "generate_vtable", "generate_repr", "generate_trait_object",
                  "done"}

\* The attribute asks for possible_super_trait = true.
IsPossibleSuperTrait ==
    crate.config.has_inheritance /\ crate.config.inheritance.possible_super_trait

\* The target of the implementations in each state of attribute_main.
TargetModeStates ==
    /\ crate.pc = "possible_super_trait" =>
            crate.stash.target_impl = SpecificTraitObject(crate.stash.trait_object_name)
    /\ AfterResolver =>
        /\ crate.stash.target_impl.kind = "BlanketTrait" <=> IsPossibleSuperTrait
        /\ crate.stash.target_impl.kind = "SpecificTraitObject" <=> ~IsPossibleSuperTrait
        /\ IsPossibleSuperTrait =>
                crate.stash.target_impl.trait_name =
                    "ThinTraitObject_Implements_" \o crate.src.item.def.ident
    /\ (crate.pc \in {"generate_vtable", "generate_repr", "generate_trait_object", "done"}
        /\ crate.config.has_inheritance /\ crate.config.inheritance.extends # NoName) =>
        /\ crate.extends_impl.present
        /\ crate.extends_impl.trait =
                "ThinTraitObject_Implements_" \o crate.config.inheritance.extends
        /\ crate.extends_impl.target =
                IF IsPossibleSuperTrait
                THEN BlanketTrait("ThinTraitObject_Implements_" \o crate.src.item.def.ident,
                                  "vtable_" \o crate.src.item.def.ident)
                ELSE SpecificTraitObject(crate.stash.trait_object_name)

\* A step of handle_extends or of a generator leaves the target as it is.
TargetModeKept ==
    crate.pc \in {"extends", "generate_vtable", "generate_repr", "generate_trait_object"} =>
        crate'.stash.target_impl = crate.stash.target_impl

\* C27: the target of the implementations is the handle type when the stash
\* is made; once handle_possible_super_trait has run it is the capability
\* trait if and only if possible_super_trait = true; handle_extends and the
\* three generators, which run after it, do not change it; and the glue of
\* extends(S) implements S's capability trait for every implementor of the
\* trait's own capability trait when the trait is a possible super trait,
\* and for the trait's handle type when it is not.
TargetModeLifecycle == []TargetModeStates /\ [][TargetModeKept]_vars

\* attribute_main finished on a trait that extends Bar and is a possible
\* super trait itself: the glue is a blanket implementation.
ExtendingSuperTraitDone ==
    /\ crate.pc = "done"
    /\ IsPossibleSuperTrait
    /\ crate.config.inheritance.extends = "Bar"
    /\ crate.stash.target_impl.kind = "BlanketTrait"
    /\ crate.extends_impl.target.kind = "BlanketTrait"
    /\ crate.extends_impl.trait = "ThinTraitObject_Implements_Bar"

\* The descriptors the normalizer makes of the trait's items.
NormalizedItems ==
    [i \in DOMAIN crate.src.item.def.items |->
        VtableItem_try_from(crate.src.item.def.items[i]).val]

\* A step of a stage after normalization leaves the descriptors of the
\* stash as they are.
DescriptorsKept ==
    AfterNormalization => crate'.stash.vtable_items = crate.stash.vtable_items

\* C28: from the end of normalization on, the descriptors in the stash are
\* those the normalizer made, in the same order, in every state that the
\* resolvers and the generators of the table, the representation and the
\* handle start from or leave.
DescriptorsFrozen ==
    /\ [](AfterNormalization => crate.stash.vtable_items = NormalizedItems)
    /\ [][DescriptorsKept]_vars

\* The generators have run on a safe method with a receiver: its field in
\* the table is an unsafe pointer taking a *mut c_void, its thunk exists,
\* and its descriptor in the stash is still safe and has its receiver.
CopiesTransformed ==
    /\ crate.pc = "done"
    /\ crate.stash.vtable_items # <<>>
    /\ ~crate.stash.vtable_items[1].unsafety
    /\ crate.stash.vtable_items[1].inputs[1].kind = "Receiver"
    /\ crate.vtable.fields[1].ptr.unsafety
    /\ crate.vtable.fields[1].ptr.inputs[1].ty = "*mut c_void"
    /\ crate.repr.thunk_methods[1].signature.unsafety
    /\ crate.repr.thunk_methods[1].signature.inputs[1] = nth_arg(0)

\* The identifiers the call of a thunk passes are the names of the thunk's
\* parameters after the first, position by position.
CallNamesParameters(th) ==
    /\ Len(th.call_tokens) = Len(th.signature.inputs) - 1
    /\ \A k \in DOMAIN th.call_tokens : th.call_tokens[k] = th.signature.inputs[k + 1]

\* C29: in every generated thunk, whatever mix of named and unnamed
\* parameters the method declares, the identifier passed at each position
\* of the call is the name of the parameter at that position of the thunk's
\* signature.
PlaceholderNamesAgree ==
    Generated =>
        \A i \in DOMAIN Out.repr.thunk_methods : CallNamesParameters(Out.repr.thunk_methods[i])

\* The thunk of `fn poke(&self, _: u8)` was generated: its parameters are
\* the placeholders 0 and 1 and its call passes placeholder 1.
UnnamedParameterPassed ==
    /\ Generated
    /\ Src.item.def.items = <<poke>>
    /\ Out.repr.thunk_methods[1].signature.inputs = <<nth_arg(0), nth_arg(1)>>
    /\ Out.repr.thunk_methods[1].call_tokens = <<nth_arg(1)>>

\* The names of the fields the table struct declares, and of those the
\* table constant of the representation initialises.
DeclaredFields == {Out.vtable.fields[i].name : i \in DOMAIN Out.vtable.fields}

InitialisedFields == {Out.repr.vtable_init[i].name : i \in DOMAIN Out.repr.vtable_init}

\* C30: whatever the configuration and the number of methods, the table
\* constant of the representation initialises exactly the fields the table
\* struct declares, each once.
ConstantInitialisesDeclaredFields ==
    Generated =>
        /\ InitialisedFields = DeclaredFields
        /\ Len(Out.repr.vtable_init) = Len(Out.vtable.fields)
        /\ ("drop" \in DeclaredFields) <=> ("super_trait_vtable" \notin DeclaredFields)

\* A table with an embedded super table, the layout fields and two methods
\* was generated with its constant.
FullConstantGenerated ==
    /\ Generated
    /\ DeclaredFields = {"super_trait_vtable", "size", "align", "fooify", "poke"}
    /\ InitialisedFields = DeclaredFields

====
